---- MODULE Spec2Model ----
(***************************************************************************)
(* Model of the undo/redo transaction manager of the flowchart editor      *)
(* (src/src/hooks/useUndoRedo.ts, function useUndoRedo).                   *)
(*                                                                         *)
(* A value of type T is an object reference; `===` / `!==` in the source   *)
(* compare references, so values are modelled as identities 1..NumValues   *)
(* and the JavaScript `null` of transactionStartRef as Null.               *)
(***************************************************************************)
EXTENDS Integers, Sequences, FiniteSets, TLC

\* ---------------------------------------------------------------- bounds
\* number of distinct object references the callers may pass
NumValues == 3
\* options.maxHistory the hook is configured with (the default is 100)
maxHistory == 2

Values == 1..NumValues
\* `null` of useRef<T | null>(null)
Null == 0

\* ----------------------------------------------------------------- state
VARIABLES
  state,                \* React state of useState<T>(initialState)
  stateRef,             \* stateRef.current
  undoStack,            \* undoStack.current, oldest entry first
  redoStack,            \* redoStack.current, oldest entry first
  undoDepth,            \* React state undoDepth
  redoDepth,            \* React state redoDepth
  transactionStartRef,  \* transactionStartRef.current (Null: no transaction)
  lastOp,               \* observer: the call that produced this state
  gesture,              \* observer: the gesture (transaction) being followed
  roundTrip,            \* observer: progress of setWithHistory;setWithHistory;undo;redo
  call,                 \* one call of a function of models/flowchart.ts
  heap,                 \* the Flowchart objects of App, by reference
  connectingFrom,       \* React state connectingFrom of App
  nodeIdCounter,        \* nodeIdCounter.current of App
  isTransactionActiveRef \* isTransactionActiveRef.current of App

hookVars == <<state, stateRef, undoStack, redoStack, undoDepth, redoDepth,
              transactionStartRef>>
appVars == <<heap, connectingFrom, nodeIdCounter, isTransactionActiveRef>>
vars == <<state, stateRef, undoStack, redoStack, undoDepth, redoDepth,
          transactionStartRef, lastOp, gesture, roundTrip, call, heap,
          connectingFrom, nodeIdCounter, isTransactionActiveRef>>

Range(s) == {s[i] : i \in 1..Len(s)}
Last(s) == s[Len(s)]
Front(s) == SubSeq(s, 1, Len(s) - 1)

\* the values returned by the hook
canUndo == undoDepth > 0
canRedo == redoDepth > 0
isTransactionActive == transactionStartRef # Null

\* slip: the length check after a push is left out
Push_noEvict(stack, v) == Append(stack, v)

\* stack.push(v); if (stack.length > maxHistory) stack.shift();
Push(stack, v) ==
  LET pushed == Append(stack, v)
  IN  IF Len(pushed) > maxHistory THEN Tail(pushed) ELSE pushed

\* setUndoDepth(undoStack.current.length); setRedoDepth(redoStack.current.length)
updateDepths ==
  /\ undoDepth' = Len(undoStack')
  /\ redoDepth' = Len(redoStack')

\* ------------------------------------------------------------ operations
\* slip: the immediate setter clears the redo history like a new change
setState_clearsRedo(newState) ==
  /\ stateRef' = newState
  /\ state' = newState
  /\ redoStack' = <<>>
  /\ redoDepth' = 0
  /\ UNCHANGED <<undoStack, undoDepth, transactionStartRef>>

setState(newState) ==
  /\ stateRef' = newState
  /\ state' = newState
  /\ UNCHANGED <<undoStack, redoStack, undoDepth, redoDepth, transactionStartRef>>

\* slip: the redo stack is not cleared on a new change
setStateWithHistory_keepsRedo(newState) ==
  IF newState = stateRef
  THEN UNCHANGED hookVars
  ELSE /\ undoStack' = Push(undoStack, stateRef)
       /\ redoStack' = redoStack
       /\ stateRef' = newState
       /\ state' = newState
       /\ updateDepths
       /\ UNCHANGED transactionStartRef

setStateWithHistory(newState) ==
  IF newState = stateRef
  THEN UNCHANGED hookVars
  ELSE /\ undoStack' = Push(undoStack, stateRef)
       /\ redoStack' = <<>>
       /\ stateRef' = newState
       /\ state' = newState
       /\ updateDepths
       /\ UNCHANGED transactionStartRef

\* slip: a start inside a transaction records the anchor again
startTransaction_restarts ==
  /\ transactionStartRef' = stateRef
  /\ UNCHANGED <<state, stateRef, undoStack, redoStack, undoDepth, redoDepth>>

startTransaction ==
  IF transactionStartRef = Null
  THEN /\ transactionStartRef' = stateRef
       /\ UNCHANGED <<state, stateRef, undoStack, redoStack, undoDepth, redoDepth>>
  ELSE UNCHANGED hookVars

\* slip: the commit changes the stacks without publishing their depths
commitTransaction_noUpdateDepths ==
  IF transactionStartRef # Null
  THEN /\ IF transactionStartRef # stateRef
          THEN /\ undoStack' = Push(undoStack, transactionStartRef)
               /\ redoStack' = <<>>
               /\ UNCHANGED <<undoDepth, redoDepth>>
          ELSE UNCHANGED <<undoStack, redoStack, undoDepth, redoDepth>>
       /\ transactionStartRef' = Null
       /\ UNCHANGED <<state, stateRef>>
  ELSE UNCHANGED hookVars

\* slip: the commit pushes the current value instead of the start value
commitTransaction_pushesCurrent ==
  IF transactionStartRef # Null
  THEN /\ IF transactionStartRef # stateRef
          THEN /\ undoStack' = Push(undoStack, stateRef)
               /\ redoStack' = <<>>
               /\ updateDepths
          ELSE UNCHANGED <<undoStack, redoStack, undoDepth, redoDepth>>
       /\ transactionStartRef' = Null
       /\ UNCHANGED <<state, stateRef>>
  ELSE UNCHANGED hookVars

commitTransaction ==
  IF transactionStartRef # Null
  THEN /\ IF transactionStartRef # stateRef
          THEN /\ undoStack' = Push(undoStack, transactionStartRef)
               /\ redoStack' = <<>>
               /\ updateDepths
          ELSE UNCHANGED <<undoStack, redoStack, undoDepth, redoDepth>>
       /\ transactionStartRef' = Null
       /\ UNCHANGED <<state, stateRef>>
  ELSE UNCHANGED hookVars

\* slip: the cancel clears the anchor without restoring the start value
cancelTransaction_keepsCurrent ==
  IF transactionStartRef # Null
  THEN /\ transactionStartRef' = Null
       /\ UNCHANGED <<state, stateRef, undoStack, redoStack, undoDepth, redoDepth>>
  ELSE UNCHANGED hookVars

cancelTransaction ==
  IF transactionStartRef # Null
  THEN /\ stateRef' = transactionStartRef
       /\ state' = transactionStartRef
       /\ transactionStartRef' = Null
       /\ UNCHANGED <<undoStack, redoStack, undoDepth, redoDepth>>
  ELSE UNCHANGED hookVars

\* slip: undo forgets to push the current value onto the redo stack
undo_noRedoPush ==
  /\ transactionStartRef' = Null
  /\ IF Len(undoStack) = 0
     THEN UNCHANGED <<state, stateRef, undoStack, redoStack, undoDepth, redoDepth>>
     ELSE /\ undoStack' = Front(undoStack)
          /\ redoStack' = redoStack
          /\ stateRef' = Last(undoStack)
          /\ state' = Last(undoStack)
          /\ updateDepths

undo ==
  /\ transactionStartRef' = Null
  /\ IF Len(undoStack) = 0
     THEN UNCHANGED <<state, stateRef, undoStack, redoStack, undoDepth, redoDepth>>
     ELSE /\ undoStack' = Front(undoStack)
          /\ redoStack' = Push(redoStack, stateRef)
          /\ stateRef' = Last(undoStack)
          /\ state' = Last(undoStack)
          /\ updateDepths

\* slip: redo assumes an entry to pop and fails on an empty redo stack
redo_failsOnEmpty ==
  /\ Len(redoStack) > 0
  /\ transactionStartRef' = Null
  /\ redoStack' = Front(redoStack)
  /\ undoStack' = Push(undoStack, stateRef)
  /\ stateRef' = Last(redoStack)
  /\ state' = Last(redoStack)
  /\ updateDepths

redo ==
  /\ transactionStartRef' = Null
  /\ IF Len(redoStack) = 0
     THEN UNCHANGED <<state, stateRef, undoStack, redoStack, undoDepth, redoDepth>>
     ELSE /\ redoStack' = Front(redoStack)
          /\ undoStack' = Push(undoStack, stateRef)
          /\ stateRef' = Last(redoStack)
          /\ state' = Last(redoStack)
          /\ updateDepths

\* slip: the reset leaves the transaction anchor in place
resetHistory_keepsAnchor ==
  /\ undoStack' = <<>>
  /\ redoStack' = <<>>
  /\ updateDepths
  /\ UNCHANGED <<state, stateRef, transactionStartRef>>

resetHistory ==
  /\ undoStack' = <<>>
  /\ redoStack' = <<>>
  /\ transactionStartRef' = Null
  /\ updateDepths
  /\ UNCHANGED <<state, stateRef>>

\* ------------------------------------------------------- document model
\* src/src/models/flowchart.ts and src/src/models/nodeTag.ts.  A Flowchart is
\* [nodes, edges]; an optional field that is undefined is <<>> and one that
\* holds v is <<v>>; a node without a tag has tag NoTag (`n.tag || ...`).
Undefined == <<>>
NoTag == ""
\* the object literal {}
EmptyObject == [k \in {} |-> Undefined]
\* object.key, undefined when the object has no such property
Property(object, key) ==
  IF key \in DOMAIN object THEN object[key] ELSE Undefined
\* the fixed text of the root node
RootText == "dialogue-start"

NODE_TAGS ==
  << [tag |-> "root", color |-> "#E0E0E0"],
     [tag |-> "dialogue", color |-> "#E3F2FD"],
     [tag |-> "option", color |-> "#E8F5E9"],
     [tag |-> "choiceFlag", color |-> "#FFF9C4"],
     [tag |-> "comment", color |-> "#F3E5F5"] >>

\* a variant that always falls back to the first entry
getNodeTagDef_fallback(tag) == NODE_TAGS[1]

getNodeTagDef(tag) ==
  LET found == SelectSeq(NODE_TAGS, LAMBDA t : t.tag = tag)
  IN  IF Len(found) > 0 THEN found[1] ELSE NODE_TAGS[1]

getTagColor(tag) == getNodeTagDef(tag).color

\* the input and output points createRootNode, createNode and normalizeNode
\* give a node
DefaultConnectionPoints(id, size) ==
  << [id |-> id \o "-input", type |-> "input",
      position |-> [x |-> 0, y |-> 0 - (size.height \div 2)]],
     [id |-> id \o "-output", type |-> "output",
      position |-> [x |-> 0, y |-> size.height \div 2]] >>

\* a variant whose node is not tagged root
createRootNode_untagged(existingIds) ==
  LET size == [width |-> 180, height |-> 80]
  IN  [id |-> IF "root" \in existingIds THEN "root-node" ELSE "root",
       position |-> [x |-> 400, y |-> 200],
       size |-> size,
       tag |-> "dialogue",
       text |-> RootText,
       actor |-> Undefined,
       childCount |-> Undefined,
       backgroundColor |-> getTagColor("root"),
       connectionPoints |-> DefaultConnectionPoints("root", size)]

createRootNode(existingIds) ==
  LET preferredId == "root"
      id == IF preferredId \in existingIds THEN "root-node" ELSE preferredId
      size == [width |-> 180, height |-> 80]
  IN  [id |-> id,
       position |-> [x |-> 400, y |-> 200],
       size |-> size,
       tag |-> "root",
       text |-> RootText,
       actor |-> Undefined,
       childCount |-> Undefined,
       backgroundColor |-> getTagColor("root"),
       connectionPoints |-> DefaultConnectionPoints(id, size)]

\* a variant that demotes every root-tagged node when there are several
ensureSingleRoot_demotesAll(flowchart) ==
  LET nodes == flowchart.nodes
      roots == {i \in 1..Len(nodes) : nodes[i].tag = "root"}
      ids == {nodes[i].id : i \in 1..Len(nodes)}
      rerooted(i) ==
        IF nodes[i].tag # "root" THEN nodes[i]
        ELSE [nodes[i] EXCEPT !.tag = "dialogue", !.actor = <<"">>,
                              !.backgroundColor = getTagColor("dialogue")]
  IN  IF Cardinality(roots) = 1 THEN flowchart
      ELSE IF Cardinality(roots) = 0
      THEN [flowchart EXCEPT !.nodes = <<createRootNode(ids)>> \o nodes]
      ELSE [flowchart EXCEPT !.nodes = [i \in 1..Len(nodes) |-> rerooted(i)]]

\* a variant that puts a synthesized root after the nodes
ensureSingleRoot_appendsRoot(flowchart) ==
  LET nodes == flowchart.nodes
      roots == {i \in 1..Len(nodes) : nodes[i].tag = "root"}
      ids == {nodes[i].id : i \in 1..Len(nodes)}
      first == CHOOSE i \in roots : \A j \in roots : i <= j
      rerooted(i) ==
        IF nodes[i].tag # "root" THEN nodes[i]
        ELSE IF i = first
        THEN [nodes[i] EXCEPT !.text = RootText, !.actor = Undefined,
                              !.childCount = Undefined,
                              !.backgroundColor = getTagColor("root")]
        ELSE [nodes[i] EXCEPT !.tag = "dialogue", !.actor = <<"">>,
                              !.backgroundColor = getTagColor("dialogue")]
  IN  IF Cardinality(roots) = 1 THEN flowchart
      ELSE IF Cardinality(roots) = 0
      THEN [flowchart EXCEPT !.nodes = Append(nodes, createRootNode(ids))]
      ELSE [flowchart EXCEPT !.nodes = [i \in 1..Len(nodes) |-> rerooted(i)]]

ensureSingleRoot(flowchart) ==
  LET nodes == flowchart.nodes
      roots == {i \in 1..Len(nodes) : nodes[i].tag = "root"}
      ids == {nodes[i].id : i \in 1..Len(nodes)}
      first == CHOOSE i \in roots : \A j \in roots : i <= j
      rerooted(i) ==
        IF nodes[i].tag # "root" THEN nodes[i]
        ELSE IF i = first
        THEN [nodes[i] EXCEPT !.text = RootText, !.actor = Undefined,
                              !.childCount = Undefined,
                              !.backgroundColor = getTagColor("root")]
        ELSE [nodes[i] EXCEPT !.tag = "dialogue", !.actor = <<"">>,
                              !.backgroundColor = getTagColor("dialogue")]
  IN  IF Cardinality(roots) = 1 THEN flowchart
      ELSE IF Cardinality(roots) = 0
      THEN [flowchart EXCEPT !.nodes = <<createRootNode(ids)>> \o nodes]
      ELSE [flowchart EXCEPT !.nodes = [i \in 1..Len(nodes) |-> rerooted(i)]]

\* a variant that keeps the childCount a choiceFlag node already carries
applyDerivedFlowchart_keepsChildCount(flowchart) ==
  LET withRoot == ensureSingleRoot(flowchart)
      outgoingCounts(id) ==
        Cardinality({i \in 1..Len(withRoot.edges) :
                       withRoot.edges[i].sourceNodeId = id})
      derived(n) ==
        LET tag == IF n.tag = NoTag THEN "dialogue" ELSE n.tag
            base == [n EXCEPT !.tag = tag,
                              !.backgroundColor = getTagColor(tag)]
        IN  IF tag = "root"
            THEN [base EXCEPT !.text = RootText, !.actor = Undefined,
                              !.childCount = Undefined]
            ELSE IF tag = "choiceFlag"
            THEN [base EXCEPT !.text = "", !.actor = Undefined,
                              !.childCount =
                                IF n.childCount # Undefined THEN n.childCount
                                ELSE <<outgoingCounts(n.id)>>]
            ELSE [base EXCEPT !.childCount = Undefined]
  IN  [withRoot EXCEPT
        !.nodes = [i \in 1..Len(withRoot.nodes) |->
                     derived(withRoot.nodes[i])]]

\* a variant that counts the edges arriving at a choiceFlag node
applyDerivedFlowchart_countsIncoming(flowchart) ==
  LET withRoot == ensureSingleRoot(flowchart)
      incomingCounts(id) ==
        Cardinality({i \in 1..Len(withRoot.edges) :
                       withRoot.edges[i].targetNodeId = id})
      derived(n) ==
        LET tag == IF n.tag = NoTag THEN "dialogue" ELSE n.tag
            base == [n EXCEPT !.tag = tag,
                              !.backgroundColor = getTagColor(tag)]
        IN  IF tag = "root"
            THEN [base EXCEPT !.text = RootText, !.actor = Undefined,
                              !.childCount = Undefined]
            ELSE IF tag = "choiceFlag"
            THEN [base EXCEPT !.text = "", !.actor = Undefined,
                              !.childCount = <<incomingCounts(n.id)>>]
            ELSE [base EXCEPT !.childCount = Undefined]
  IN  [withRoot EXCEPT
        !.nodes = [i \in 1..Len(withRoot.nodes) |->
                     derived(withRoot.nodes[i])]]

applyDerivedFlowchart(flowchart) ==
  LET withRoot == ensureSingleRoot(flowchart)
      outgoingCounts(id) ==
        Cardinality({i \in 1..Len(withRoot.edges) :
                       withRoot.edges[i].sourceNodeId = id})
      derived(n) ==
        LET tag == IF n.tag = NoTag THEN "dialogue" ELSE n.tag
            base == [n EXCEPT !.tag = tag,
                              !.backgroundColor = getTagColor(tag)]
        IN  IF tag = "root"
            THEN [base EXCEPT !.text = RootText, !.actor = Undefined,
                              !.childCount = Undefined]
            ELSE IF tag = "choiceFlag"
            THEN [base EXCEPT !.text = "", !.actor = Undefined,
                              !.childCount = <<outgoingCounts(n.id)>>]
            ELSE [base EXCEPT !.childCount = Undefined]
  IN  [withRoot EXCEPT
        !.nodes = [i \in 1..Len(withRoot.nodes) |->
                     derived(withRoot.nodes[i])]]

createFlowchart ==
  applyDerivedFlowchart([nodes |-> <<createRootNode({})>>, edges |-> <<>>,
                         metadata |-> <<EmptyObject>>])

createNode(id, position, size) ==
  [id |-> id,
   position |-> position,
   size |-> size,
   tag |-> "dialogue",
   text |-> "new-node",
   actor |-> <<"">>,
   childCount |-> Undefined,
   backgroundColor |-> getTagColor("dialogue"),
   connectionPoints |-> DefaultConnectionPoints(id, size)]

addNode(flowchart, node) ==
  [flowchart EXCEPT !.nodes = Append(flowchart.nodes, node)]

\* { ...node, ...updates }
Merge(node, updates) ==
  [f \in DOMAIN node |-> IF f \in DOMAIN updates THEN updates[f] ELSE node[f]]

updateNode(flowchart, nodeId, updates) ==
  LET updated(node) == IF node.id = nodeId THEN Merge(node, updates) ELSE node
  IN  [flowchart EXCEPT
        !.nodes = [i \in 1..Len(flowchart.nodes) |->
                     updated(flowchart.nodes[i])]]

\* a variant that keeps the edges arriving at the node
removeNode_keepsIncoming(flowchart, nodeId) ==
  [flowchart EXCEPT
     !.nodes = SelectSeq(flowchart.nodes, LAMBDA node : node.id # nodeId),
     !.edges = SelectSeq(flowchart.edges,
                 LAMBDA edge : edge.sourceNodeId # nodeId)]

\* a variant that leaves the edges alone
removeNode_keepsEdges(flowchart, nodeId) ==
  [flowchart EXCEPT
     !.nodes = SelectSeq(flowchart.nodes, LAMBDA node : node.id # nodeId)]

removeNode(flowchart, nodeId) ==
  [flowchart EXCEPT
     !.nodes = SelectSeq(flowchart.nodes, LAMBDA node : node.id # nodeId),
     !.edges = SelectSeq(flowchart.edges,
                 LAMBDA edge : edge.sourceNodeId # nodeId
                               /\ edge.targetNodeId # nodeId)]

createEdge(id, sourceNodeId, sourcePointId, targetNodeId, targetPointId) ==
  [id |-> id, sourceNodeId |-> sourceNodeId, sourcePointId |-> sourcePointId,
   targetNodeId |-> targetNodeId, targetPointId |-> targetPointId]

\* a variant that looks for the source of the edge only
addEdgeThrows_sourceOnly(flowchart, edge) ==
  ~\E i \in 1..Len(flowchart.nodes) :
     flowchart.nodes[i].id = edge.sourceNodeId

\* addEdge throws: `if (!sourceExists || !targetExists) throw new Error(...)`
addEdgeThrows(flowchart, edge) ==
  LET sourceExists ==
        \E i \in 1..Len(flowchart.nodes) :
          flowchart.nodes[i].id = edge.sourceNodeId
      targetExists ==
        \E i \in 1..Len(flowchart.nodes) :
          flowchart.nodes[i].id = edge.targetNodeId
  IN  ~sourceExists \/ ~targetExists

\* a variant whose duplicate check also compares the ids of the edges
addEdge_comparesId(flowchart, edge) ==
  LET duplicate ==
        \E i \in 1..Len(flowchart.edges) :
          LET e == flowchart.edges[i]
          IN  /\ e.id = edge.id
              /\ e.sourceNodeId = edge.sourceNodeId
              /\ e.sourcePointId = edge.sourcePointId
              /\ e.targetNodeId = edge.targetNodeId
              /\ e.targetPointId = edge.targetPointId
  IN  IF duplicate THEN flowchart
      ELSE [flowchart EXCEPT !.edges = Append(flowchart.edges, edge)]

\* what addEdge returns when it does not throw
addEdge(flowchart, edge) ==
  LET duplicate ==
        \E i \in 1..Len(flowchart.edges) :
          LET e == flowchart.edges[i]
          IN  /\ e.sourceNodeId = edge.sourceNodeId
              /\ e.sourcePointId = edge.sourcePointId
              /\ e.targetNodeId = edge.targetNodeId
              /\ e.targetPointId = edge.targetPointId
  IN  IF duplicate THEN flowchart
      ELSE [flowchart EXCEPT !.edges = Append(flowchart.edges, edge)]

removeEdge(flowchart, edgeId) ==
  [flowchart EXCEPT
     !.edges = SelectSeq(flowchart.edges, LAMBDA edge : edge.id # edgeId)]

\* ------------------------------------------------- documents and calls
MaxNodes == 2
MaxEdges == 2

NodeIds == {"root", "root-node", "node-0"}
NodeTags == {NODE_TAGS[i].tag : i \in 1..Len(NODE_TAGS)}

\* a node as a file or an edit in progress may hold it: any tag or none,
\* either without the optional fields or with all of them set
RawNode(id, tag, full) ==
  LET size == [width |-> 150, height |-> 80]
  IN  [id |-> id,
       position |-> [x |-> 400, y |-> 300],
       size |-> size,
       tag |-> tag,
       text |-> IF full THEN "hi" ELSE "",
       actor |-> IF full THEN <<"a">> ELSE Undefined,
       childCount |-> IF full THEN <<5>> ELSE Undefined,
       backgroundColor |-> IF full THEN "#000000" ELSE getTagColor(tag),
       connectionPoints |-> DefaultConnectionPoints(id, size)]

RawNodes ==
  {RawNode(id, tag, full) :
     id \in NodeIds, tag \in NodeTags \cup {NoTag}, full \in BOOLEAN}

DistinctIds(nodes) ==
  \A i, j \in 1..Len(nodes) : i # j => nodes[i].id # nodes[j].id

RawNodeLists ==
  {ns \in UNION {[1..n -> RawNodes] : n \in 0..MaxNodes} : DistinctIds(ns)}

\* the sublists of a list, of at most n elements
Sublists(s, n) ==
  LET pick(I) == [k \in 1..Cardinality(I) |->
                    s[CHOOSE i \in I : Cardinality({j \in I : j <= i}) = k]]
  IN  {pick(I) : I \in {J \in SUBSET (1..Len(s)) : Cardinality(J) <= n}}

RawEdgeList ==
  << createEdge("e1", "node-0", "node-0-output", "root", "root-input"),
     createEdge("e2", "node-0", "node-0-output", "root-node", "root-node-input"),
     createEdge("e3", "root", "root-output", "node-0", "node-0-input") >>

RawDocs ==
  {[nodes |-> ns, edges |-> es] :
     ns \in RawNodeLists, es \in Sublists(RawEdgeList, MaxEdges)}

\* documents as the editor builds them: the root of createFlowchart, a
\* dialogue node of handleAddNode and an option node, joined by edges
EditNodeList ==
  LET position == [x |-> 400, y |-> 300]
      size == [width |-> 150, height |-> 80]
  IN  << createFlowchart.nodes[1],
         createNode("node-0", position, size),
         Merge(createNode("node-1", position, size),
               [tag |-> "option", actor |-> Undefined,
                backgroundColor |-> getTagColor("option")]) >>

EditNodeIds == {EditNodeList[i].id : i \in 1..Len(EditNodeList)}

EditEdgeList ==
  << createEdge("e1", "root", "root-output", "node-0", "node-0-input"),
     createEdge("e2", "root", "root-output", "node-0", "node-0-input"),
     createEdge("e1", "root", "root-output", "node-0", "node-0-output"),
     createEdge("e2", "root", "root-output", "node-0", "node-0-output"),
     createEdge("e1", "node-0", "node-0-output", "node-1", "node-1-input"),
     createEdge("e2", "node-0", "node-0-output", "node-1", "node-1-input"),
     createEdge("e1", "node-0", "node-0-output", "node-1", "node-1-output"),
     createEdge("e2", "node-0", "node-0-output", "node-1", "node-1-output"),
     createEdge("e1", "node-1", "node-1-output", "root", "root-input"),
     createEdge("e2", "node-1", "node-1-output", "root", "root-input"),
     createEdge("e1", "node-1", "node-1-output", "root", "root-output"),
     createEdge("e2", "node-1", "node-1-output", "root", "root-output") >>

EditEdges == {EditEdgeList[i] : i \in 1..Len(EditEdgeList)}

\* edges naming a point that the node they name does not have
ForeignPointEdges ==
  {createEdge("e1", "root", "node-0-output", "node-0", "node-0-input"),
   createEdge("e1", "root", "root-output", "node-0", "no-such-point")}

EditDocs ==
  {[nodes |-> ns, edges |-> es] :
     ns \in Sublists(EditNodeList, MaxNodes),
     es \in Sublists(EditEdgeList, MaxEdges)}

NoCall == [fn |-> "none"]
NoConnection == <<>>

\* ------------------------------------------------------------- observers
\* The observers record what a caller of the hook can see: the call just
\* made, the hook's state when the call was made, and how far a gesture or
\* a round trip has progressed.  They never influence the hook.
OpNames == {"setState", "setStateWithHistory", "startTransaction",
            "commitTransaction", "cancelTransaction", "undo", "redo",
            "resetHistory"}

Snapshot ==
  [stateRef |-> stateRef, undoStack |-> undoStack, redoStack |-> redoStack,
   transactionStartRef |-> transactionStartRef]

NoGesture ==
  [phase |-> "idle", pure |-> TRUE, anchor |-> Null, undo0 |-> <<>>,
   inter |-> {}, changed |-> FALSE]

\* A gesture is opened by a startTransaction made while none is open.
\*   anchor : stateRef at that call;  undo0 : undoStack at that call;
\*   inter  : the values passed to setState since;
\*   pure   : only setState calls were made since;
\*   phase  : "active" while open; "committed" right after the commit of a
\*            pure gesture (changed: stateRef differed from anchor then);
\*            "undone" right after an undo that follows such a commit;
\*            "abandoned" right after cancel, undo or redo ended it.
Impure(g) == [g EXCEPT !.pure = FALSE, !.undo0 = <<>>, !.inter = {}]

GestureAfter(op, arg) ==
  CASE op = "startTransaction" ->
         IF gesture.phase = "active"
         THEN Impure(gesture)
         ELSE [phase |-> "active", pure |-> TRUE, anchor |-> stateRef,
               undo0 |-> undoStack, inter |-> {}, changed |-> FALSE]
    [] op = "setState" ->
         IF gesture.phase = "active"
         THEN IF gesture.pure
              THEN [gesture EXCEPT !.inter = @ \cup {arg}]
              ELSE gesture
         ELSE NoGesture
    [] op = "setStateWithHistory" ->
         IF gesture.phase = "active" THEN Impure(gesture) ELSE NoGesture
    [] op = "commitTransaction" ->
         IF gesture.phase = "active" /\ gesture.pure
         THEN [gesture EXCEPT !.phase = "committed",
                              !.changed = (stateRef # gesture.anchor)]
         ELSE NoGesture
    [] op \in {"cancelTransaction", "redo"} ->
         IF gesture.phase = "active"
         THEN [gesture EXCEPT !.phase = "abandoned"]
         ELSE NoGesture
    [] op = "undo" ->
         IF gesture.phase = "active"
         THEN [gesture EXCEPT !.phase = "abandoned"]
         ELSE IF gesture.phase = "committed"
              THEN [gesture EXCEPT !.phase = "undone"]
              ELSE NoGesture
    [] OTHER -> NoGesture

NoRoundTrip == [phase |-> 0, v1 |-> Null, v2 |-> Null]

\* phase 1: setStateWithHistory(v1) made with no transaction active and v1
\* not the current reference; 2: then setStateWithHistory(v2), v2 not v1;
\* 3: then undo(); 4: then redo().
RoundTripAfter(op, arg) ==
  IF op = "setStateWithHistory" /\ roundTrip.phase = 1 /\ arg # stateRef
  THEN [roundTrip EXCEPT !.phase = 2, !.v2 = arg]
  ELSE IF op = "setStateWithHistory" /\ arg # stateRef
          /\ transactionStartRef = Null
  THEN [phase |-> 1, v1 |-> arg, v2 |-> Null]
  ELSE IF op = "undo" /\ roundTrip.phase = 2
  THEN [roundTrip EXCEPT !.phase = 3]
  ELSE IF op = "redo" /\ roundTrip.phase = 3
  THEN [roundTrip EXCEPT !.phase = 4]
  ELSE NoRoundTrip

Observe(op, arg) ==
  /\ lastOp' = [op |-> op, arg |-> arg, pre |-> Snapshot]
  /\ gesture' = GestureAfter(op, arg)
  /\ roundTrip' = RoundTripAfter(op, arg)
  /\ UNCHANGED <<call, appVars>>

\* --------------------------------------------------------- specification
Init ==
  /\ stateRef \in Values
  /\ state = stateRef
  /\ undoStack = <<>>
  /\ redoStack = <<>>
  /\ undoDepth = 0
  /\ redoDepth = 0
  /\ transactionStartRef = Null
  /\ lastOp = [op |-> "init", arg |-> Null, pre |-> Snapshot]
  /\ gesture = NoGesture
  /\ roundTrip = NoRoundTrip
  /\ call = NoCall
  /\ heap = <<>>
  /\ connectingFrom = NoConnection
  /\ nodeIdCounter = 0
  /\ isTransactionActiveRef = FALSE

CallSetState ==
  \E v \in Values : setState(v) /\ Observe("setState", v)

CallSetStateWithHistory ==
  \E v \in Values : setStateWithHistory(v) /\ Observe("setStateWithHistory", v)

CallStartTransaction == startTransaction /\ Observe("startTransaction", Null)

CallCommitTransaction == commitTransaction /\ Observe("commitTransaction", Null)

CallCancelTransaction == cancelTransaction /\ Observe("cancelTransaction", Null)

CallUndo == undo /\ Observe("undo", Null)

CallRedo == redo /\ Observe("redo", Null)

CallResetHistory == resetHistory /\ Observe("resetHistory", Null)

Next ==
  \/ CallSetState
  \/ CallSetStateWithHistory
  \/ CallStartTransaction
  \/ CallCommitTransaction
  \/ CallCancelTransaction
  \/ CallUndo
  \/ CallRedo
  \/ CallResetHistory

Spec == Init /\ [][Next]_vars

\* ---------------------------------------- specification of the documents
\* One call of a function of models/flowchart.ts on a document drawn from
\* the bounded universes above.
InitDoc == Init /\ stateRef = 1

CallApplyDerivedFlowchart ==
  /\ call = NoCall
  /\ \E d \in RawDocs :
       call' = [fn |-> "applyDerivedFlowchart", doc |-> d,
                out |-> applyDerivedFlowchart(d)]
  /\ UNCHANGED <<hookVars, lastOp, gesture, roundTrip, appVars>>

\* the document handleNodeUpdate makes current for an update of the tag
CallUpdateNode ==
  /\ call = NoCall
  /\ \E d \in EditDocs, nodeId \in EditNodeIds,
        tag \in NodeTags \ {"root"} :
       call' = [fn |-> "updateNode", doc |-> d, nodeId |-> nodeId,
                updates |-> [tag |-> tag],
                out |-> applyDerivedFlowchart(
                          updateNode(d, nodeId, [tag |-> tag]))]
  /\ UNCHANGED <<hookVars, lastOp, gesture, roundTrip, appVars>>

\* out is <<>> when the call throws and <<the document returned>> otherwise
CallAddEdge ==
  /\ call = NoCall
  /\ \E d \in EditDocs, e \in EditEdges \cup ForeignPointEdges :
       call' = [fn |-> "addEdge", doc |-> d, edge |-> e,
                threw |-> addEdgeThrows(d, e),
                out |-> IF addEdgeThrows(d, e) THEN <<>>
                        ELSE <<addEdge(d, e)>>]
  /\ UNCHANGED <<hookVars, lastOp, gesture, roundTrip, appVars>>

CallRemoveNode ==
  /\ call = NoCall
  /\ \E d \in EditDocs, nodeId \in EditNodeIds :
       call' = [fn |-> "removeNode", doc |-> d, nodeId |-> nodeId,
                out |-> removeNode(d, nodeId)]
  /\ UNCHANGED <<hookVars, lastOp, gesture, roundTrip, appVars>>

\* A session on the functions: createFlowchart(), then addNode of a node
\* made by createNode and addEdge from the root to it, then updateNode of
\* its tag to choiceFlag, then addEdge from it back to the root, each
\* followed by applyDerivedFlowchart.
CallCreateFlowchart ==
  /\ call = NoCall
  /\ \E id \in EditNodeIds \ {"root"} :
       call' = [fn |-> "session", step |-> 0, d1 |-> id,
                out |-> createFlowchart]
  /\ UNCHANGED <<hookVars, lastOp, gesture, roundTrip, appVars>>

SessionStep ==
  /\ call.fn = "session"
  /\ call.step < 3
  /\ LET d == call.out
         d1 == call.d1
         node == createNode(d1, [x |-> 400, y |-> 300],
                            [width |-> 150, height |-> 80])
         toD1 == createEdge("e1", "root", "root-output", d1, d1 \o "-input")
         fromD1 == createEdge("e2", d1, d1 \o "-output", "root", "root-input")
         next ==
           IF call.step = 0
           THEN applyDerivedFlowchart(addEdge(addNode(d, node), toD1))
           ELSE IF call.step = 1
           THEN applyDerivedFlowchart(updateNode(d, d1, [tag |-> "choiceFlag"]))
           ELSE applyDerivedFlowchart(addEdge(d, fromD1))
     IN  call' = [call EXCEPT !.step = call.step + 1, !.out = next]
  /\ UNCHANGED <<hookVars, lastOp, gesture, roundTrip, appVars>>

\* A sequence of addNode, addEdge, removeNode, removeEdge and
\* applyDerivedFlowchart from createFlowchart(); an addEdge that throws
\* leaves the caller with the document it had.
SequenceEdges ==
  {EditEdgeList[1], EditEdgeList[2], EditEdgeList[5], EditEdgeList[9]}

SequenceStart ==
  /\ call = NoCall
  /\ call' = [fn |-> "sequence", out |-> createFlowchart]
  /\ UNCHANGED <<hookVars, lastOp, gesture, roundTrip, appVars>>

SequenceAddNode ==
  /\ call.fn = "sequence"
  /\ Len(call.out.nodes) <= MaxNodes
  /\ \E id \in EditNodeIds \ {"root"} :
       call' = [call EXCEPT !.out =
                  addNode(@, createNode(id, [x |-> 400, y |-> 300],
                                        [width |-> 150, height |-> 80]))]
  /\ UNCHANGED <<hookVars, lastOp, gesture, roundTrip, appVars>>

SequenceAddEdge ==
  /\ call.fn = "sequence"
  /\ Len(call.out.edges) < MaxEdges
  /\ \E e \in SequenceEdges :
       call' = [call EXCEPT !.out =
                  IF addEdgeThrows(@, e) THEN @ ELSE addEdge(@, e)]
  /\ UNCHANGED <<hookVars, lastOp, gesture, roundTrip, appVars>>

SequenceRemoveNode ==
  /\ call.fn = "sequence"
  /\ \E id \in EditNodeIds : call' = [call EXCEPT !.out = removeNode(@, id)]
  /\ UNCHANGED <<hookVars, lastOp, gesture, roundTrip, appVars>>

SequenceRemoveEdge ==
  /\ call.fn = "sequence"
  /\ \E id \in {e.id : e \in SequenceEdges} :
       call' = [call EXCEPT !.out = removeEdge(@, id)]
  /\ UNCHANGED <<hookVars, lastOp, gesture, roundTrip, appVars>>

SequenceApplyDerived ==
  /\ call.fn = "sequence"
  /\ call' = [call EXCEPT !.out = applyDerivedFlowchart(@)]
  /\ UNCHANGED <<hookVars, lastOp, gesture, roundTrip, appVars>>

NextDoc ==
  \/ CallApplyDerivedFlowchart
  \/ CallUpdateNode
  \/ CallAddEdge
  \/ CallRemoveNode
  \/ CallCreateFlowchart
  \/ SessionStep

SpecDoc == InitDoc /\ [][NextDoc]_vars

\* ------------------------------------------------ specification of App
\* App holds Flowchart objects in the hook: stateRef, state and the entries
\* of the stacks are references, heap[r] is the object behind r.  Every
\* document a handler builds is a new object.
MaxDocs == 4

\* flowchartRef.current
flowchart == heap[stateRef]
NodeIdsOf(d) == {d.nodes[i].id : i \in 1..Len(d.nodes)}
\* the ids of the connection points of a type that a node shows
PointIdsOf(d, nodeId, type) ==
  UNION {{d.nodes[i].connectionPoints[k].id :
            k \in {m \in 1..Len(d.nodes[i].connectionPoints) :
                     d.nodes[i].connectionPoints[m].type = type}} :
           i \in {j \in 1..Len(d.nodes) : d.nodes[j].id = nodeId}}

\* the handlers that replace the document and reset the history
ResetOps == {"handleLoad", "handleNewProject", "handleOpenProject"}

\* what the handlers leave in `started`: the document that was current and
\* the length of undoStack when handleTransactionStart set
\* isTransactionActiveRef, from then until the handleTransactionEnd that
\* clears it has returned
StartedAfter(op) ==
  IF isTransactionActiveRef THEN lastOp.started
  ELSE IF op = "handleTransactionStart"
  THEN <<[ref |-> stateRef, depth |-> Len(undoStack)]>>
  ELSE <<>>

\* the handlers leave their name, their arguments and the state they found
\* (the hook's state, connectingFrom, the number of documents built so far,
\* isTransactionActiveRef.current), `loaded`,
\* what the last load left, for as long as only handleUndo and handleRedo
\* have been called since, and `started`
ObserveApp(op, arg) ==
  /\ lastOp' = [op |-> op, arg |-> arg, pre |-> Snapshot,
                connectingFrom |-> connectingFrom, docs |-> Len(heap),
                active |-> isTransactionActiveRef,
                loaded |-> IF op \in {"handleUndo", "handleRedo"}
                           THEN lastOp.loaded ELSE <<>>,
                started |-> StartedAfter(op)]
  /\ UNCHANGED <<gesture, roundTrip, call>>

\* a load, a new project or an opened project that replaced the document
\* leaves its name, its argument and `loaded`: the document it made current
\* and the length undoStack had before it
ObserveReset(op, arg) ==
  /\ lastOp' = [op |-> op, arg |-> arg,
                loaded |-> <<[ref |-> stateRef',
                              history |-> Len(undoStack)]>>,
                started |-> <<>>]
  /\ UNCHANGED <<gesture, roundTrip, call>>

\* setStateWithHistory(doc) for a document just built
setNewStateWithHistory(doc) ==
  /\ Len(heap) < MaxDocs
  /\ heap' = Append(heap, doc)
  /\ setStateWithHistory(Len(heap) + 1)

InitApp ==
  /\ heap = <<createFlowchart>>
  /\ stateRef = 1
  /\ state = 1
  /\ undoStack = <<>>
  /\ redoStack = <<>>
  /\ undoDepth = 0
  /\ redoDepth = 0
  /\ transactionStartRef = Null
  /\ connectingFrom = NoConnection
  /\ nodeIdCounter = 0
  /\ isTransactionActiveRef = FALSE
  /\ call = NoCall
  /\ lastOp = [op |-> "init", arg |-> Null, pre |-> Snapshot,
               loaded |-> <<>>, started |-> <<>>]
  /\ gesture = NoGesture
  /\ roundTrip = NoRoundTrip

handleUndo ==
  /\ undo
  /\ connectingFrom' = NoConnection
  /\ UNCHANGED <<heap, nodeIdCounter, isTransactionActiveRef>>
  /\ ObserveApp("handleUndo", Null)

handleRedo ==
  /\ redo
  /\ connectingFrom' = NoConnection
  /\ UNCHANGED <<heap, nodeIdCounter, isTransactionActiveRef>>
  /\ ObserveApp("handleRedo", Null)

handleAddNode ==
  LET newNode == createNode("node-" \o ToString(nodeIdCounter),
                            [x |-> 400, y |-> 300],
                            [width |-> 150, height |-> 80])
  IN  /\ nodeIdCounter' = nodeIdCounter + 1
      /\ setNewStateWithHistory(
           applyDerivedFlowchart(addNode(flowchart, newNode)))
      /\ UNCHANGED <<connectingFrom, isTransactionActiveRef>>
      /\ ObserveApp("handleAddNode", Null)

handleConnectionStart(nodeId, pointId) ==
  /\ connectingFrom' = <<[nodeId |-> nodeId, pointId |-> pointId]>>
  /\ UNCHANGED <<hookVars, heap, nodeIdCounter, isTransactionActiveRef>>
  /\ ObserveApp("handleConnectionStart",
                [nodeId |-> nodeId, pointId |-> pointId])

\* the id of a new edge (`edge-${Date.now()}-${random}`) is one no edge has
handleConnectionEnd(nodeId, pointId) ==
  LET fc == flowchart
      from == connectingFrom[1]
      duplicate ==
        \E i \in 1..Len(fc.edges) :
          /\ fc.edges[i].sourceNodeId = from.nodeId
          /\ fc.edges[i].sourcePointId = from.pointId
          /\ fc.edges[i].targetNodeId = nodeId
          /\ fc.edges[i].targetPointId = pointId
      sourceExists == \E i \in 1..Len(fc.nodes) : fc.nodes[i].id = from.nodeId
      targetExists == \E i \in 1..Len(fc.nodes) : fc.nodes[i].id = nodeId
      newEdge == createEdge("edge-" \o ToString(Len(heap)), from.nodeId,
                            from.pointId, nodeId, pointId)
  IN  /\ connectingFrom' = NoConnection
      /\ UNCHANGED <<nodeIdCounter, isTransactionActiveRef>>
      /\ ObserveApp("handleConnectionEnd",
                    [nodeId |-> nodeId, pointId |-> pointId])
      /\ IF connectingFrom = NoConnection THEN UNCHANGED <<hookVars, heap>>
         ELSE IF from.nodeId = nodeId THEN UNCHANGED <<hookVars, heap>>
         ELSE IF duplicate THEN UNCHANGED <<hookVars, heap>>
         ELSE IF ~sourceExists \/ ~targetExists
         THEN UNCHANGED <<hookVars, heap>>
         ELSE IF addEdgeThrows(fc, newEdge)
         THEN UNCHANGED <<hookVars, heap>>
         ELSE setNewStateWithHistory(
                applyDerivedFlowchart(addEdge(fc, newEdge)))

handleConnectionCancel ==
  /\ connectingFrom' = NoConnection
  /\ UNCHANGED <<hookVars, heap, nodeIdCounter, isTransactionActiveRef>>
  /\ ObserveApp("handleConnectionCancel", Null)

handleNodeDelete(nodeId) ==
  /\ UNCHANGED <<connectingFrom, nodeIdCounter, isTransactionActiveRef>>
  /\ ObserveApp("handleNodeDelete", nodeId)
  /\ IF \E i \in 1..Len(flowchart.nodes) :
          flowchart.nodes[i].id = nodeId /\ flowchart.nodes[i].tag = "root"
     THEN UNCHANGED <<hookVars, heap>>
     ELSE setNewStateWithHistory(
            applyDerivedFlowchart(removeNode(flowchart, nodeId)))

\* A click on a connection point (Node.tsx handleConnectionPointClick):
\* on an output point while no connection is being made it starts one, on
\* an input point of another node while one is being made it ends it.
ClickStartsConnection ==
  /\ connectingFrom = NoConnection
  /\ \E nodeId \in NodeIdsOf(flowchart) :
       \E pointId \in PointIdsOf(flowchart, nodeId, "output") :
         handleConnectionStart(nodeId, pointId)

ClickEndsConnection ==
  /\ connectingFrom # NoConnection
  /\ \E nodeId \in NodeIdsOf(flowchart) \ {connectingFrom[1].nodeId} :
       \E pointId \in PointIdsOf(flowchart, nodeId, "input") :
         handleConnectionEnd(nodeId, pointId)

\* Escape while a connection is being made
EscapeCancelsConnection ==
  /\ connectingFrom # NoConnection
  /\ handleConnectionCancel

NextApp ==
  \/ call = NoCall /\ handleUndo
  \/ call = NoCall /\ handleRedo
  \/ call = NoCall /\ handleAddNode
  \/ call = NoCall /\ ClickStartsConnection
  \/ call = NoCall /\ ClickEndsConnection
  \/ call = NoCall /\ EscapeCancelsConnection
  \/ call = NoCall /\ \E nodeId \in NodeIdsOf(flowchart) :
                        handleNodeDelete(nodeId)
  \/ lastOp.op = "init" /\ CallAddEdge
  \/ lastOp.op = "init" /\ SequenceStart
  \/ SequenceAddNode
  \/ SequenceAddEdge
  \/ SequenceRemoveNode
  \/ SequenceRemoveEdge
  \/ SequenceApplyDerived

SpecApp == InitApp /\ [][NextApp]_vars

\* ------------------------------------------- the other handlers of App
\* setFlowchart(doc) for a document just built
setNewState(doc) ==
  /\ Len(heap) < MaxDocs
  /\ heap' = Append(heap, doc)
  /\ setState(Len(heap) + 1)

handleNodeMove(nodeId, position) ==
  /\ setNewState(updateNode(flowchart, nodeId, [position |-> position]))
  /\ UNCHANGED <<connectingFrom, nodeIdCounter, isTransactionActiveRef>>
  /\ ObserveApp("handleNodeMove", [nodeId |-> nodeId, position |-> position])

isUndoableNodeUpdate(updates) ==
  \/ "backgroundColor" \in DOMAIN updates
  \/ "tag" \in DOMAIN updates
  \/ "size" \in DOMAIN updates
  \/ "position" \in DOMAIN updates
  \/ "connectionPoints" \in DOMAIN updates

isUndoableEdgeUpdate(updates) == "color" \in DOMAIN updates

\* what handleNodeUpdate passes on of the updates aimed at a node: for the
\* root, position, size and connectionPoints only
safeUpdates(updates) ==
  [f \in DOMAIN updates \cap {"position", "size", "connectionPoints"} |->
     updates[f]]

effectiveUpdates(fc, nodeId, updates) ==
  LET found == SelectSeq(fc.nodes, LAMBDA n : n.id = nodeId)
  IN  IF Len(found) > 0 /\ found[1].tag = "root"
      THEN safeUpdates(updates) ELSE updates

handleNodeUpdate(nodeId, requested) ==
  LET fc == flowchart
      updates == effectiveUpdates(fc, nodeId, requested)
  IN  /\ UNCHANGED <<connectingFrom, nodeIdCounter, isTransactionActiveRef>>
      /\ ObserveApp("handleNodeUpdate",
                    [nodeId |-> nodeId, updates |-> requested])
      /\ IF ~isUndoableNodeUpdate(updates)
         THEN setNewState(updateNode(fc, nodeId, updates))
         ELSE IF isTransactionActiveRef
         THEN setNewState(updateNode(fc, nodeId, updates))
         ELSE setNewStateWithHistory(
                applyDerivedFlowchart(updateNode(fc, nodeId, updates)))

handleTransactionStart ==
  /\ IF isTransactionActiveRef
     THEN UNCHANGED <<hookVars, isTransactionActiveRef>>
     ELSE /\ isTransactionActiveRef' = TRUE
          /\ startTransaction
  /\ UNCHANGED <<heap, connectingFrom, nodeIdCounter>>
  /\ ObserveApp("handleTransactionStart", Null)

handleTransactionEnd ==
  /\ IF ~isTransactionActiveRef
     THEN UNCHANGED <<hookVars, isTransactionActiveRef>>
     ELSE /\ isTransactionActiveRef' = FALSE
          /\ commitTransaction
  /\ UNCHANGED <<heap, connectingFrom, nodeIdCounter>>
  /\ ObserveApp("handleTransactionEnd", Null)

handleEdgeDelete(edgeId) ==
  /\ setNewStateWithHistory(
       applyDerivedFlowchart(removeEdge(flowchart, edgeId)))
  /\ UNCHANGED <<connectingFrom, nodeIdCounter, isTransactionActiveRef>>
  /\ ObserveApp("handleEdgeDelete", edgeId)

\* { ...edge, ...updates }
Spread(edge, updates) ==
  [f \in DOMAIN edge \cup DOMAIN updates |->
     IF f \in DOMAIN updates THEN updates[f] ELSE edge[f]]

handleEdgeUpdate(edgeId, updates) ==
  LET fc == flowchart
      doc == [fc EXCEPT
                !.edges = [i \in 1..Len(fc.edges) |->
                             IF fc.edges[i].id = edgeId
                             THEN Spread(fc.edges[i], updates)
                             ELSE fc.edges[i]]]
  IN  /\ UNCHANGED <<connectingFrom, nodeIdCounter, isTransactionActiveRef>>
      /\ ObserveApp("handleEdgeUpdate",
                    [edgeId |-> edgeId, updates |-> updates])
      /\ IF ~isUndoableEdgeUpdate(updates) THEN setNewState(doc)
         ELSE IF isTransactionActive THEN setNewState(doc)
         ELSE setNewStateWithHistory(doc)

\* --------------------------------------------------- files and loading
\* A field of the object JSON.parse returns: absent, an array, or a value of
\* another type.
Missing == [kind |-> "missing"]
NotArray == [kind |-> "string"]
Array(items) == [kind |-> "array", items |-> items]

\* a node as a file holds it (Partial<Node>): every field may be absent
JsonNode(id, tag, text) ==
  [id |-> id, tag |-> tag, text |-> text, position |-> Undefined,
   size |-> Undefined, actor |-> Undefined, childCount |-> Undefined,
   connectionPoints |-> Undefined]

normalizeNode(raw) ==
  LET tag == IF raw.tag = Undefined \/ raw.tag[1] = NoTag
             THEN "dialogue" ELSE raw.tag[1]
      size == IF raw.size = Undefined
              THEN [width |-> 150, height |-> 80] ELSE raw.size[1]
      id == IF raw.id = Undefined THEN "" ELSE raw.id[1]
      defaultConnectionPoints ==
        IF id # "" THEN DefaultConnectionPoints(id, size) ELSE <<>>
      actor == IF tag = "dialogue" /\ raw.actor = Undefined
               THEN <<"">> ELSE raw.actor
      childCount == IF tag = "choiceFlag" /\ raw.childCount = Undefined
                    THEN <<0>> ELSE raw.childCount
  IN  [id |-> id,
       position |-> IF raw.position = Undefined
                    THEN [x |-> 0, y |-> 0] ELSE raw.position[1],
       size |-> size,
       tag |-> tag,
       text |-> IF tag = "root" THEN RootText
                ELSE IF raw.text = Undefined THEN "" ELSE raw.text[1],
       actor |-> IF tag # "dialogue" THEN Undefined ELSE actor,
       childCount |-> IF tag # "choiceFlag" THEN Undefined ELSE childCount,
       backgroundColor |-> getTagColor(tag),
       connectionPoints |->
         IF raw.connectionPoints # Undefined /\ Len(raw.connectionPoints[1]) > 0
         THEN raw.connectionPoints[1] ELSE defaultConnectionPoints]

\* !value, Array.isArray(value) of a field
Falsy(field) == field.kind = "missing"
IsArray(field) == field.kind = "array"

\* deserializeFlowchart throws: JSON.parse fails, or
\* `!data.nodes || !Array.isArray(data.nodes)`, or the same of data.edges
deserializeThrows(file) ==
  \/ ~file.json
  \/ Falsy(file.nodes) \/ ~IsArray(file.nodes)
  \/ Falsy(file.edges) \/ ~IsArray(file.edges)

deserializeFlowchart(file) ==
  applyDerivedFlowchart(
    [nodes |-> [i \in 1..Len(file.nodes.items) |->
                  normalizeNode(file.nodes.items[i])],
     edges |-> file.edges.items,
     metadata |-> IF Property(file, "metadata") = Undefined
                  THEN <<EmptyObject>> ELSE file.metadata])

\* The files a load is tried on: a file without nodes, a file whose edges
\* are not an array, a file with a choiceFlag node that has text and a
\* coloured edge leaving it, and a file in which an untagged node and two
\* roots share an id.
Files ==
  {
    [json |-> TRUE, nodes |-> Missing, edges |-> Array(<<>>)],
    [json |-> TRUE,
     nodes |-> Array(<<JsonNode(<<"root">>, <<"root">>, <<"start">>)>>),
     edges |-> NotArray],
    [json |-> TRUE,
     nodes |-> Array(<<JsonNode(<<"root">>, <<"root">>, <<"start">>),
                       JsonNode(<<"node-1">>, <<"choiceFlag">>, <<"hi">>)>>),
     edges |-> Array(<<Spread(createEdge("e1", "node-1", "node-1-output",
                                         "root", "root-input"),
                              [color |-> "#FF0000"])>>)],
    [json |-> TRUE,
     nodes |-> Array(<<JsonNode(<<"node-0">>, Undefined, <<"hi">>),
                       JsonNode(<<"node-0">>, <<"root">>, Undefined),
                       JsonNode(<<"node-0">>, <<"root">>, <<"again">>)>>),
     edges |-> Array(<<>>)] }

\* what electronAPI.loadFile / loadFileFromPath resolve to when they give
\* the text of a file (nothing happens otherwise)
LoadResults == {[success |-> TRUE, data |-> <<file>>] : file \in Files}

MaxNodeNumber == 9

\* n.id.match(/node-(\d+)/) ? parseInt(match[1], 10) : 0
NodeNumber(id) ==
  LET ks == {k \in 0..MaxNodeNumber : id = "node-" \o ToString(k)}
  IN  IF ks = {} THEN 0 ELSE CHOOSE k \in ks : TRUE

Max(S) == CHOOSE m \in S : \A k \in S : k <= m

\* a variant that replaces the document and keeps the history
resetHistoryAndSetFlowchart_keepsHistory(doc) ==
  /\ heap' = Append(heap, doc)
  /\ stateRef' = Len(heap) + 1
  /\ state' = Len(heap) + 1
  /\ UNCHANGED <<undoStack, redoStack, undoDepth, redoDepth,
                 transactionStartRef>>

\* resetHistory(); setFlowchart(doc) for a document just built.  Nothing
\* refers to the documents built before any more (the stacks are empty,
\* the anchor is null, doc is current): they are dropped from the heap.
resetHistoryAndSetFlowchart(doc) ==
  /\ heap' = <<doc>>
  /\ undoStack' = <<>>
  /\ redoStack' = <<>>
  /\ transactionStartRef' = Null
  /\ updateDepths
  /\ stateRef' = 1
  /\ state' = 1

\* a variant that resets the history before it reads the file
loadResult_resetsFirst(result) ==
  IF result.success /\ result.data # <<>>
  THEN IF deserializeThrows(result.data[1])
       THEN /\ resetHistory
            /\ UNCHANGED <<heap, nodeIdCounter>>
       ELSE LET loadedFlowchart == deserializeFlowchart(result.data[1])
                maxId == Max({NodeNumber(loadedFlowchart.nodes[i].id) :
                                i \in 1..Len(loadedFlowchart.nodes)} \cup {0})
            IN  /\ resetHistoryAndSetFlowchart(loadedFlowchart)
                /\ nodeIdCounter' = maxId + 1
  ELSE UNCHANGED <<hookVars, heap, nodeIdCounter>>

\* the part of handleLoad and handleLoadFile that follows the await: an
\* exception of deserializeFlowchart is caught and reported
loadResult(result) ==
  IF result.success /\ result.data # <<>>
  THEN IF deserializeThrows(result.data[1])
       THEN UNCHANGED <<hookVars, heap, nodeIdCounter>>
       ELSE LET loadedFlowchart == deserializeFlowchart(result.data[1])
                maxId == Max({NodeNumber(loadedFlowchart.nodes[i].id) :
                                i \in 1..Len(loadedFlowchart.nodes)} \cup {0})
            IN  /\ resetHistoryAndSetFlowchart(loadedFlowchart)
                /\ nodeIdCounter' = maxId + 1
  ELSE UNCHANGED <<hookVars, heap, nodeIdCounter>>

\* handleLoad and handleLoadFile (which differ in where the text comes from
\* and in what they tell the file explorer) once the text has arrived
handleLoad(result) ==
  /\ loadResult(result)
  /\ UNCHANGED <<connectingFrom, isTransactionActiveRef>>
  /\ IF result.success /\ result.data # <<>>
        /\ ~deserializeThrows(result.data[1])
     THEN ObserveReset("handleLoad", [result |-> result])
     ELSE ObserveApp("handleLoad",
                     [result |-> result, flowchart |-> flowchart])

\* handleNewProject when electronAPI is missing or createProjectFolder gave a
\* path (nothing happens otherwise)
handleNewProject ==
  /\ resetHistoryAndSetFlowchart(createFlowchart)
  /\ nodeIdCounter' = 0
  /\ UNCHANGED <<connectingFrom, isTransactionActiveRef>>
  /\ ObserveReset("handleNewProject", Null)

\* handleOpenProject when openProjectFolder gave a path (nothing happens
\* otherwise)
handleOpenProject ==
  /\ resetHistoryAndSetFlowchart(createFlowchart)
  /\ nodeIdCounter' = 0
  /\ UNCHANGED <<connectingFrom, isTransactionActiveRef>>
  /\ ObserveReset("handleOpenProject", Null)

\* ------------------------------------------- specification of the editor
\* The arguments the components give the handlers: a drag moves a node
\* (Node.tsx), the property panel changes the text, the background colour
\* and the size of the selected node and the colour of the selected edge
\* (PropertyPanel.tsx), a resize changes size, position and connection
\* points together (Node.tsx).
MovePositions == {[x |-> 10, y |-> 20]}

\* the update a resize of a node issues: its points move with its height
ResizeUpdate(node) ==
  LET size == [width |-> 200, height |-> 100]
      moved(p) ==
        IF p.type = "input"
        THEN [p EXCEPT !.position = [x |-> 0, y |-> 0 - (size.height \div 2)]]
        ELSE IF p.type = "output"
        THEN [p EXCEPT !.position = [x |-> 0, y |-> size.height \div 2]]
        ELSE p
  IN  [size |-> size, position |-> [x |-> 10, y |-> 20],
       connectionPoints |-> [k \in 1..Len(node.connectionPoints) |->
                               moved(node.connectionPoints[k])]]

NodeUpdates(node) ==
  { [text |-> "x"], [backgroundColor |-> "#FF0000"], ResizeUpdate(node) }

EdgeUpdates == {[color |-> "#FF0000"]}

EdgeIdsOf(d) == {d.edges[i].id : i \in 1..Len(d.edges)}

\* the number of documents the handlers build between two loads
MaxEdits == 1
CanEdit == Len(heap) <= MaxEdits

NextEditor ==
  \/ handleUndo
  \/ handleRedo
  \/ CanEdit /\ handleAddNode
  \/ CanEdit /\ ClickStartsConnection
  \/ CanEdit /\ ClickEndsConnection
  \/ EscapeCancelsConnection
  \/ CanEdit /\ \E nodeId \in NodeIdsOf(flowchart) : handleNodeDelete(nodeId)
  \/ CanEdit /\ \E nodeId \in NodeIdsOf(flowchart) :
       \E position \in MovePositions : handleNodeMove(nodeId, position)
  \/ CanEdit /\ \E i \in 1..Len(flowchart.nodes) :
       \E updates \in NodeUpdates(flowchart.nodes[i]) :
         handleNodeUpdate(flowchart.nodes[i].id, updates)
  \/ CanEdit /\ handleTransactionStart
  \/ handleTransactionEnd
  \/ CanEdit /\ \E edgeId \in EdgeIdsOf(flowchart) : handleEdgeDelete(edgeId)
  \/ CanEdit /\ \E edgeId \in EdgeIdsOf(flowchart) :
       \E updates \in EdgeUpdates : handleEdgeUpdate(edgeId, updates)
  \/ \E result \in LoadResults : handleLoad(result)
  \/ handleNewProject
  \/ handleOpenProject

SpecEditor == InitApp /\ [][NextEditor]_vars

TypeOK ==
  /\ stateRef \in Values
  /\ state \in Values
  /\ undoStack \in Seq(Values)
  /\ redoStack \in Seq(Values)
  /\ undoDepth \in Nat
  /\ redoDepth \in Nat
  /\ transactionStartRef \in Values \cup {Null}
  /\ lastOp.op \in OpNames \cup {"init"}

\* ---------------------------------------------------------------- claims
\* the hook's state when the last call was made
pre == lastOp.pre

\* what a push leaves of a stack that held `old` before it
KeptBy(old) == IF Len(old) < maxHistory THEN old ELSE Tail(old)

\* what commitTransaction leaves on undoStack after a gesture of setState
\* calls only: the undoStack of the start with exactly one more entry, the
\* value that was current at startTransaction, when current differs from
\* that value at the commit, and the undoStack of the start otherwise
OneEntryPerGesture ==
  /\ (gesture.phase = "committed" /\ gesture.changed) =>
       /\ undoStack # <<>>
       /\ Last(undoStack) = gesture.anchor
       /\ Front(undoStack) = KeptBy(gesture.undo0)
  /\ (gesture.phase = "committed" /\ ~gesture.changed) =>
       undoStack = gesture.undo0

\* C1 as stated: Transaction atomicity.  After startTransaction, k >= 0
\* setState calls and commitTransaction (nothing else in between), exactly
\* one entry, the pre-transaction value, was added if current differed from
\* it and none otherwise; a following undo() makes current the
\* pre-transaction value.
TransactionAtomicityAsClaimed ==
  /\ OneEntryPerGesture
  /\ gesture.phase = "undone" => stateRef = gesture.anchor

\* C1: Transaction atomicity, amended.  As above for the entry added; a
\* following undo() makes current the pre-transaction value when the commit
\* added the entry, and otherwise (nothing to undo in the gesture) the entry
\* that was newest on undoStack when the gesture started, if there was one.
TransactionAtomicity ==
  /\ OneEntryPerGesture
  /\ (gesture.phase = "undone" /\ gesture.changed) =>
       stateRef = gesture.anchor
  /\ (gesture.phase = "undone" /\ ~gesture.changed) =>
       stateRef = IF gesture.undo0 = <<>> THEN gesture.anchor
                  ELSE Last(gesture.undo0)

\* a gesture of at least two setState calls with values other than the start
\* value, begun with a full undoStack, was committed and then undone
TransactionAtomicityWitness ==
  /\ gesture.phase = "undone"
  /\ gesture.changed
  /\ lastOp.op = "undo"
  /\ Cardinality(gesture.inter \ {gesture.anchor}) >= 2
  /\ Len(gesture.undo0) = maxHistory

\* C2: Undo/redo round trip.  With no transaction active, after
\* setStateWithHistory(v1); setStateWithHistory(v2); undo(), v1 not the
\* current reference and v2 not v1, current is v1; after a following redo()
\* current is v2.
UndoRedoRoundTrip ==
  /\ roundTrip.phase = 3 => stateRef = roundTrip.v1
  /\ roundTrip.phase = 4 => stateRef = roundTrip.v2

UndoRedoRoundTripWitness ==
  /\ roundTrip.phase = 4
  /\ lastOp.op = "redo"
  /\ roundTrip.v1 # roundTrip.v2
  /\ stateRef = roundTrip.v2

\* the last call pushed an entry onto undoStack / redoStack
PushedOnUndo ==
  \/ lastOp.op = "setStateWithHistory" /\ lastOp.arg # pre.stateRef
  \/ lastOp.op = "commitTransaction" /\ pre.transactionStartRef # Null
       /\ pre.transactionStartRef # pre.stateRef
  \/ lastOp.op = "redo" /\ pre.redoStack # <<>>

PushedOnRedo == lastOp.op = "undo" /\ pre.undoStack # <<>>

\* C3: Bounded history.  undoStack and redoStack never hold more than
\* maxHistory entries, and a push onto a full stack drops its oldest entry
\* and keeps the others in order.
BoundedHistory ==
  /\ Len(undoStack) <= maxHistory
  /\ Len(redoStack) <= maxHistory
  /\ (PushedOnUndo /\ Len(pre.undoStack) = maxHistory) =>
       /\ Len(undoStack) = maxHistory
       /\ Front(undoStack) = Tail(pre.undoStack)
  /\ (PushedOnRedo /\ Len(pre.redoStack) = maxHistory) =>
       /\ Len(redoStack) = maxHistory
       /\ Front(redoStack) = Tail(pre.redoStack)

\* a push was made onto a full undoStack whose oldest entry differs from its
\* newest one
BoundedHistoryWitness ==
  /\ PushedOnUndo
  /\ Len(pre.undoStack) = maxHistory
  /\ pre.undoStack[1] # Last(pre.undoStack)
  /\ Len(undoStack) = maxHistory

\* C4: setStateWithHistory(v).  With v the current reference nothing changes
\* (current, both stacks, the transaction anchor); otherwise the previous
\* current is the newest undoStack entry above the entries kept, redoStack is
\* empty and current is v.
SetWithHistoryEffect ==
  lastOp.op = "setStateWithHistory" =>
    IF lastOp.arg = pre.stateRef
    THEN /\ stateRef = pre.stateRef
         /\ undoStack = pre.undoStack
         /\ redoStack = pre.redoStack
         /\ transactionStartRef = pre.transactionStartRef
    ELSE /\ undoStack # <<>>
         /\ Last(undoStack) = pre.stateRef
         /\ Front(undoStack) = KeptBy(pre.undoStack)
         /\ redoStack = <<>>
         /\ stateRef = lastOp.arg

\* a new value was set while both stacks held entries
SetWithHistoryEffectWitness ==
  /\ lastOp.op = "setStateWithHistory"
  /\ lastOp.arg # pre.stateRef
  /\ pre.undoStack # <<>>
  /\ pre.redoStack # <<>>
  /\ stateRef = lastOp.arg

\* C5: setState(v) makes current v and leaves undoStack, redoStack and the
\* transaction anchor as they were, with or without an active transaction.
SetImmediateFrame ==
  lastOp.op = "setState" =>
    /\ stateRef = lastOp.arg
    /\ undoStack = pre.undoStack
    /\ redoStack = pre.redoStack
    /\ transactionStartRef = pre.transactionStartRef

\* a new value was set immediately inside a transaction while both stacks
\* held entries
SetImmediateFrameWitness ==
  /\ lastOp.op = "setState"
  /\ lastOp.arg # pre.stateRef
  /\ pre.transactionStartRef # Null
  /\ undoStack # <<>>
  /\ redoStack # <<>>

\* the values that were current only between the start of the gesture just
\* abandoned and its end: passed to setState inside it, and neither its start
\* value nor an entry the stacks held when it ended
PartialValues ==
  gesture.inter \
    ({gesture.anchor} \cup Range(pre.undoStack) \cup Range(pre.redoStack))

\* C6: Abandoning a transaction leaves the state consistent.  Right after
\* cancelTransaction(), undo() or redo() ended a gesture made of setState
\* calls only, no transaction anchor remains and neither stack holds a value
\* that was only an intermediate setState value of that gesture.
AbandonLeavesNoPartialEntry ==
  (gesture.phase = "abandoned" /\ gesture.pure) =>
    /\ transactionStartRef = Null
    /\ (Range(undoStack) \cup Range(redoStack)) \cap PartialValues = {}

\* C7: cancelTransaction().  With a transaction active, current becomes the
\* value it had at startTransaction, the anchor is cleared and both stacks
\* are as they were; with none active nothing changes.
CancelEffect ==
  lastOp.op = "cancelTransaction" =>
    IF pre.transactionStartRef # Null
    THEN /\ gesture.phase = "abandoned"
         /\ stateRef = gesture.anchor
         /\ transactionStartRef = Null
         /\ undoStack = pre.undoStack
         /\ redoStack = pre.redoStack
    ELSE /\ stateRef = pre.stateRef
         /\ transactionStartRef = Null
         /\ undoStack = pre.undoStack
         /\ redoStack = pre.redoStack

\* a gesture that moved current away from its start value was cancelled
\* while both stacks held entries
CancelEffectWitness ==
  /\ lastOp.op = "cancelTransaction"
  /\ gesture.phase = "abandoned"
  /\ gesture.inter # {}
  /\ pre.stateRef # gesture.anchor
  /\ stateRef = gesture.anchor
  /\ undoStack # <<>>
  /\ redoStack # <<>>

\* C8: After every undo() and every redo(), the stack empty or not, no
\* transaction is active; a startTransaction() made while a transaction is
\* active leaves the recorded anchor (the value current at the first start).
NoTransactionAfterUndoRedo ==
  /\ lastOp.op \in {"undo", "redo"} => transactionStartRef = Null
  /\ (lastOp.op = "startTransaction" /\ pre.transactionStartRef # Null) =>
       /\ transactionStartRef = pre.transactionStartRef
       /\ transactionStartRef = gesture.anchor

\* undo() was called inside a transaction with an empty undoStack
NoTransactionAfterUndoRedoWitness ==
  /\ lastOp.op = "undo"
  /\ pre.transactionStartRef # Null
  /\ pre.undoStack = <<>>
  /\ transactionStartRef = Null

\* C9: resetHistory() empties both stacks and clears the transaction anchor;
\* current is as it was.
ResetHistoryEffect ==
  lastOp.op = "resetHistory" =>
    /\ undoStack = <<>>
    /\ redoStack = <<>>
    /\ transactionStartRef = Null
    /\ stateRef = pre.stateRef

\* the history was reset inside a transaction while both stacks held entries
ResetHistoryEffectWitness ==
  /\ lastOp.op = "resetHistory"
  /\ pre.undoStack # <<>>
  /\ pre.redoStack # <<>>
  /\ pre.transactionStartRef # Null
  /\ pre.transactionStartRef # pre.stateRef

\* C10: canUndo is true exactly when undoStack holds an entry and canRedo
\* exactly when redoStack does.
DepthsAgree ==
  /\ canUndo <=> undoStack # <<>>
  /\ canRedo <=> redoStack # <<>>

\* a commit emptied a redoStack that held entries
DepthsAgreeWitness ==
  /\ lastOp.op = "commitTransaction"
  /\ pre.redoStack # <<>>
  /\ redoStack = <<>>
  /\ ~canRedo
  /\ canUndo

\* C11: Every operation of the manager is total: each call, with each
\* argument, is accepted in every reachable state; undo() with an empty
\* undoStack and redo() with an empty redoStack leave current and both stacks
\* as they were, and commitTransaction()/cancelTransaction() with no active
\* transaction change nothing.
OperationsTotal ==
  /\ \A v \in Values : ENABLED (setState(v) /\ Observe("setState", v))
  /\ \A v \in Values :
       ENABLED (setStateWithHistory(v) /\ Observe("setStateWithHistory", v))
  /\ ENABLED CallStartTransaction
  /\ ENABLED CallCommitTransaction
  /\ ENABLED CallCancelTransaction
  /\ ENABLED CallUndo
  /\ ENABLED CallRedo
  /\ ENABLED CallResetHistory
  /\ (lastOp.op = "undo" /\ pre.undoStack = <<>>) =>
       /\ stateRef = pre.stateRef
       /\ undoStack = <<>>
       /\ redoStack = pre.redoStack
  /\ (lastOp.op = "redo" /\ pre.redoStack = <<>>) =>
       /\ stateRef = pre.stateRef
       /\ undoStack = pre.undoStack
       /\ redoStack = <<>>
  /\ (lastOp.op \in {"commitTransaction", "cancelTransaction"}
        /\ pre.transactionStartRef = Null) =>
       /\ stateRef = pre.stateRef
       /\ undoStack = pre.undoStack
       /\ redoStack = pre.redoStack
       /\ transactionStartRef = Null

\* redo() was called with an empty redoStack, inside a transaction, while
\* undoStack held entries
OperationsTotalWitness ==
  /\ lastOp.op = "redo"
  /\ pre.redoStack = <<>>
  /\ pre.undoStack # <<>>
  /\ pre.transactionStartRef # Null
  /\ undoStack = pre.undoStack

\* the nodes of a document that carry a tag
NodesTagged(d, tag) == {i \in 1..Len(d.nodes) : d.nodes[i].tag = tag}

\* C12: Normalization is idempotent: for every document d, with no root or
\* several roots, nodes without a tag, choiceFlag nodes with any text and
\* childCount, applyDerivedFlowchart(applyDerivedFlowchart(d)) equals
\* applyDerivedFlowchart(d).
IdempotentNormalization ==
  call.fn = "applyDerivedFlowchart" =>
    applyDerivedFlowchart(call.out) = call.out

\* a document with several roots, the second of them carrying text, actor
\* and childCount, has been normalized and came out changed
IdempotentNormalizationWitness ==
  /\ call.fn = "applyDerivedFlowchart"
  /\ Cardinality(NodesTagged(call.doc, "root")) = 2
  /\ call.doc.nodes[2].childCount # Undefined
  /\ call.doc.edges # <<>>
  /\ call.out # call.doc

\* C13: Single root: for every document d, also one with no node at all or
\* with several root-tagged nodes, applyDerivedFlowchart(d) holds exactly
\* one node whose tag is root.
SingleRoot ==
  call.fn = "applyDerivedFlowchart" =>
    Cardinality(NodesTagged(call.out, "root")) = 1

\* the document without nodes has been normalized
SingleRootWitness ==
  /\ call.fn = "applyDerivedFlowchart"
  /\ call.doc.nodes = <<>>
  /\ Len(call.out.nodes) = 1
  /\ call.out.nodes[1].tag = "root"

\* the number of edges of a document that leave the node with this id
EdgesFrom(d, id) ==
  Cardinality({i \in 1..Len(d.edges) : d.edges[i].sourceNodeId = id})

\* C14: ChoiceFlag derivation: for every document d, every choiceFlag node
\* of applyDerivedFlowchart(d) has childCount equal to the number of edges
\* of d whose sourceNodeId is the node's id (0 when there is none),
\* whatever childCount the node carried in d.
ChoiceFlagDerivation ==
  call.fn = "applyDerivedFlowchart" =>
    \A i \in NodesTagged(call.out, "choiceFlag") :
      call.out.nodes[i].childCount =
        <<EdgesFrom(call.doc, call.out.nodes[i].id)>>

\* a choiceFlag node that carried childCount 5 and has two outgoing edges
\* has been normalized, next to a choiceFlag node without outgoing edge
ChoiceFlagDerivationWitness ==
  /\ call.fn = "applyDerivedFlowchart"
  /\ Len(call.doc.nodes) = 2
  /\ \E i, j \in NodesTagged(call.doc, "choiceFlag") :
       /\ call.doc.nodes[i].childCount = <<5>>
       /\ EdgesFrom(call.doc, call.doc.nodes[i].id) = 2
       /\ EdgesFrom(call.doc, call.doc.nodes[j].id) = 0
       /\ \E k \in NodesTagged(call.out, "choiceFlag") :
            /\ call.out.nodes[k].id = call.doc.nodes[i].id
            /\ call.out.nodes[k].childCount = <<2>>

\* C15: Per-node derivation: in applyDerivedFlowchart(d) every node's
\* backgroundColor is the colour the table gives its tag; the root node has
\* the fixed text and neither actor nor childCount; every choiceFlag node
\* has empty text; every node that is not a choiceFlag has no childCount.
PerNodeDerivation ==
  call.fn = "applyDerivedFlowchart" =>
    \A i \in 1..Len(call.out.nodes) :
      LET n == call.out.nodes[i]
      IN  /\ \E k \in 1..Len(NODE_TAGS) :
               NODE_TAGS[k].tag = n.tag /\ NODE_TAGS[k].color = n.backgroundColor
          /\ n.tag = "root" =>
               n.text = RootText /\ n.actor = Undefined
               /\ n.childCount = Undefined
          /\ n.tag = "choiceFlag" => n.text = ""
          /\ n.tag # "choiceFlag" => n.childCount = Undefined

\* a root with text, actor, childCount and a colour of its own and a node
\* without tag, likewise, have been normalized
PerNodeDerivationWitness ==
  /\ call.fn = "applyDerivedFlowchart"
  /\ Len(call.doc.nodes) = 2
  /\ call.doc.nodes[1] = RawNode("node-0", "root", TRUE)
  /\ call.doc.nodes[2] = RawNode("root", NoTag, TRUE)
  /\ call.out.nodes[1].backgroundColor = "#E0E0E0"
  /\ call.out.nodes[2].backgroundColor = "#E3F2FD"
  /\ call.out.nodes[2].childCount = Undefined

\* C16: Actor presence after normalization: in applyDerivedFlowchart(d)
\* every dialogue node has an actor (a string, possibly empty) and every
\* option and comment node has none; also for a node whose tag updateNode
\* has just changed (option to dialogue, dialogue to option) without
\* touching actor.
ActorPresence ==
  call.fn \in {"applyDerivedFlowchart", "updateNode"} =>
    \A i \in 1..Len(call.out.nodes) :
      LET n == call.out.nodes[i]
      IN  /\ n.tag = "dialogue" => n.actor # Undefined
          /\ n.tag \in {"option", "comment"} => n.actor = Undefined

\* C17: Normalization preserves node-id uniqueness: when the node ids of d
\* are pairwise distinct, so are those of applyDerivedFlowchart(d), also
\* when d has no root and a root is synthesized while the id "root" (and
\* possibly the fallback id) already belongs to another node.
NormalizationKeepsIdsDistinct ==
  (call.fn = "applyDerivedFlowchart" /\ DistinctIds(call.doc.nodes)) =>
    DistinctIds(call.out.nodes)

\* the (sourceNodeId, sourcePointId, targetNodeId, targetPointId) of an edge
EdgeTuple(e) ==
  <<e.sourceNodeId, e.sourcePointId, e.targetNodeId, e.targetPointId>>

NoDuplicateTuples(d) ==
  \A i, j \in 1..Len(d.edges) :
    i # j => EdgeTuple(d.edges[i]) # EdgeTuple(d.edges[j])

HoldsTuple(d, e) ==
  \E i \in 1..Len(d.edges) : EdgeTuple(d.edges[i]) = EdgeTuple(e)

\* C18: Duplicate-edge idempotence: for every document d and edge e whose
\* endpoints exist in d, addEdge(addEdge(d, e), e) equals addEdge(d, e);
\* addEdge(d, e) returns d itself whenever d already holds an edge with the
\* same (sourceNodeId, sourcePointId, targetNodeId, targetPointId), whatever
\* the id of e; and a document without duplicate tuples stays without them
\* under addEdge, hence under any sequence of addEdge calls.
DuplicateEdgeIdempotence ==
  (call.fn = "addEdge" /\ ~call.threw) =>
    LET d == call.doc
        e == call.edge
        out == call.out[1]
    IN  /\ ~addEdgeThrows(out, e)
        /\ addEdge(out, e) = out
        /\ HoldsTuple(d, e) => out = d
        /\ ~HoldsTuple(d, e) => out.edges = Append(d.edges, e)
        /\ NoDuplicateTuples(d) => NoDuplicateTuples(out)

\* addEdge was given an edge whose tuple the document holds under another id
DuplicateEdgeIdempotenceWitness ==
  /\ call.fn = "addEdge"
  /\ ~call.threw
  /\ NoDuplicateTuples(call.doc)
  /\ Len(call.doc.edges) = 2
  /\ \E i \in 1..Len(call.doc.edges) :
       /\ EdgeTuple(call.doc.edges[i]) = EdgeTuple(call.edge)
       /\ call.doc.edges[i].id # call.edge.id
  /\ call.out = <<call.doc>>


\* a connection attempt that ended on a node while the node it started from
\* or the node it ends on is not in the current document
FailedConnection ==
  /\ lastOp.op = "handleConnectionEnd"
  /\ lastOp.connectingFrom # NoConnection
  /\ LET ids == NodeIdsOf(heap[pre.stateRef])
     IN  \/ lastOp.connectingFrom[1].nodeId \notin ids
         \/ lastOp.arg.nodeId \notin ids

\* C19: addEdge(d, e) fails with an error, and yields no document, exactly
\* when e.sourceNodeId or e.targetNodeId is not the id of a node of d; the
\* check comes before the duplicate check (an edge whose tuple d holds
\* fails all the same); and in App a failed connection attempt leaves
\* current, undoStack and redoStack unchanged.
AddEdgeFailure ==
  /\ call.fn = "addEdge" =>
       /\ call.threw <=> (\/ call.edge.sourceNodeId \notin NodeIdsOf(call.doc)
                          \/ call.edge.targetNodeId \notin NodeIdsOf(call.doc))
       /\ call.threw <=> call.out = <<>>
  /\ FailedConnection =>
       /\ stateRef = pre.stateRef
       /\ state = pre.stateRef
       /\ undoStack = pre.undoStack
       /\ redoStack = pre.redoStack
       /\ Len(heap) = lastOp.docs

\* a connection was started from a node, the node was deleted and the
\* connection then ended on another node, with undo history present
AddEdgeFailureWitness ==
  /\ FailedConnection
  /\ lastOp.connectingFrom[1].nodeId \notin NodeIdsOf(flowchart)
  /\ lastOp.arg.nodeId \in NodeIdsOf(flowchart)
  /\ undoStack # <<>>
  /\ connectingFrom = NoConnection

\* the elements of s at the indices I, in the order of s
KeptInOrder(s, I) ==
  [k \in 1..Cardinality(I) |->
     s[CHOOSE i \in I : Cardinality({j \in I : j <= i}) = k]]

\* C20: Cascade on delete: for every document d and node id n,
\* removeNode(d, n) holds no node with id n and no edge whose sourceNodeId
\* or targetNodeId is n, and every other node and edge of d is kept,
\* unchanged and in the same order.
CascadeOnDelete ==
  call.fn = "removeNode" =>
    LET d == call.doc
        n == call.nodeId
        out == call.out
    IN  /\ \A i \in 1..Len(out.nodes) : out.nodes[i].id # n
        /\ \A i \in 1..Len(out.edges) :
             out.edges[i].sourceNodeId # n /\ out.edges[i].targetNodeId # n
        /\ out.nodes =
             KeptInOrder(d.nodes, {i \in 1..Len(d.nodes) : d.nodes[i].id # n})
        /\ out.edges =
             KeptInOrder(d.edges,
               {i \in 1..Len(d.edges) :
                  d.edges[i].sourceNodeId # n /\ d.edges[i].targetNodeId # n})

\* a node was removed that an edge arrived at, next to a node and an edge
\* that stay
CascadeOnDeleteWitness ==
  /\ call.fn = "removeNode"
  /\ Len(call.doc.nodes) = 2
  /\ Len(call.doc.edges) = 2
  /\ \E i \in 1..2 : call.doc.nodes[i].id = call.nodeId
  /\ \E i \in 1..2 : call.doc.edges[i].targetNodeId = call.nodeId
  /\ Len(call.out.nodes) = 1
  /\ Len(call.out.edges) = 1

\* the node with an id in a document
NodeOf(d, id) == d.nodes[CHOOSE i \in 1..Len(d.nodes) : d.nodes[i].id = id]

\* C22: A concrete session: createFlowchart() has one root node with id
\* "root" at (400,200) and no edges; after addNode of a dialogue node D1,
\* addEdge root.output -> D1.input and normalization there are 2 nodes and
\* 1 edge and D1 has no childCount; after updateNode(D1, tag choiceFlag)
\* and normalization D1.text is "" and D1.childCount is 0; after a further
\* addEdge D1.output -> root.input and normalization D1.childCount is 1.
ConcreteSession ==
  call.fn = "session" =>
    LET d == call.out
    IN  /\ call.step = 0 =>
             /\ Len(d.nodes) = 1
             /\ d.nodes[1].tag = "root"
             /\ d.nodes[1].id = "root"
             /\ d.nodes[1].position = [x |-> 400, y |-> 200]
             /\ d.edges = <<>>
        /\ call.step = 1 =>
             /\ Len(d.nodes) = 2
             /\ Len(d.edges) = 1
             /\ NodeOf(d, call.d1).tag = "dialogue"
             /\ NodeOf(d, call.d1).childCount = Undefined
        /\ call.step = 2 =>
             /\ NodeOf(d, call.d1).tag = "choiceFlag"
             /\ NodeOf(d, call.d1).text = ""
             /\ NodeOf(d, call.d1).childCount = <<0>>
        /\ call.step = 3 =>
             /\ Len(d.edges) = 2
             /\ NodeOf(d, call.d1).childCount = <<1>>

\* the session has run to its end
ConcreteSessionWitness ==
  /\ call.fn = "session"
  /\ call.step = 3
  /\ Len(call.out.nodes) = 2
  /\ NodeOf(call.out, call.d1).childCount = <<1>>

\* the ids of the connection points of a node of a document
AllPointIdsOf(d, nodeId) ==
  PointIdsOf(d, nodeId, "input") \cup PointIdsOf(d, nodeId, "output")

\* C29: Point membership at edge creation: whenever addEdge(d, e) adds e to
\* the document, e.sourcePointId is the id of a connection point of the
\* node e.sourceNodeId in d and e.targetPointId is the id of a connection
\* point of the node e.targetNodeId in d.
PointMembershipAtCreation ==
  (call.fn = "addEdge" /\ ~call.threw /\ call.out # <<call.doc>>) =>
    /\ call.edge.sourcePointId \in AllPointIdsOf(call.doc, call.edge.sourceNodeId)
    /\ call.edge.targetPointId \in AllPointIdsOf(call.doc, call.edge.targetNodeId)

\* C30: Root enforcement and step order: when d has no root,
\* applyDerivedFlowchart(d) has the synthesized root as its first node,
\* followed by the nodes of d in their order; when d has several roots, the
\* first root-tagged node in array order stays root and every later one
\* becomes a dialogue node with actor "", the dialogue colour and no
\* childCount: the downgraded nodes get dialogue-shaped derived fields in
\* the same pass.
RootEnforcementOrder ==
  call.fn = "applyDerivedFlowchart" =>
    LET d == call.doc
        out == call.out
        roots == NodesTagged(d, "root")
    IN  /\ roots = {} =>
             /\ Len(out.nodes) = Len(d.nodes) + 1
             /\ out.nodes[1].tag = "root"
             /\ out.nodes[1].text = RootText
             /\ out.nodes[1].position = [x |-> 400, y |-> 200]
             /\ out.nodes[1].size = [width |-> 180, height |-> 80]
             /\ \A i \in 1..Len(d.nodes) :
                  /\ out.nodes[i + 1].id = d.nodes[i].id
                  /\ out.nodes[i + 1].tag # "root"
                  /\ out.nodes[i + 1].position = d.nodes[i].position
        /\ Cardinality(roots) > 1 =>
             /\ Len(out.nodes) = Len(d.nodes)
             /\ \A i \in 1..Len(d.nodes) : out.nodes[i].id = d.nodes[i].id
             /\ \A i \in roots :
                  IF \A j \in roots : i <= j
                  THEN out.nodes[i].tag = "root"
                  ELSE /\ out.nodes[i].tag = "dialogue"
                       /\ out.nodes[i].actor = <<"">>
                       /\ out.nodes[i].backgroundColor = "#E3F2FD"
                       /\ out.nodes[i].childCount = Undefined

\* a document of two roots, the later one with actor "a" and childCount 5,
\* has been normalized
RootEnforcementOrderWitness ==
  /\ call.fn = "applyDerivedFlowchart"
  /\ NodesTagged(call.doc, "root") = {1, 2}
  /\ call.doc.nodes[2].actor = <<"a">>
  /\ call.doc.nodes[2].childCount = <<5>>
  /\ call.out.nodes[1].tag = "root"
  /\ call.out.nodes[2].tag = "dialogue"
  /\ call.out.nodes[2].actor = <<"">>

\* every edge of the document joins two of its nodes
EdgesJoinNodes(d) ==
  \A i \in 1..Len(d.edges) :
    /\ d.edges[i].sourceNodeId \in NodeIdsOf(d)
    /\ d.edges[i].targetNodeId \in NodeIdsOf(d)

\* C28: Referential integrity over sequences: from createFlowchart(), after
\* any sequence of addNode, addEdge, removeNode, removeEdge and
\* applyDerivedFlowchart, and in App after any interleaving of
\* handleConnectionStart, handleNodeDelete, undo, redo and
\* handleConnectionEnd (also for a connection started from a node that is
\* deleted before the connection ends), every edge's sourceNodeId and
\* targetNodeId is the id of a node of the same document.
ReferentialIntegrity ==
  /\ call.fn = "sequence" => EdgesJoinNodes(call.out)
  /\ \A r \in 1..Len(heap) : EdgesJoinNodes(heap[r])

\* a connection was made, another was started from the node it arrives at,
\* that node was deleted and the second connection then ended
ReferentialIntegrityWitness ==
  /\ FailedConnection
  /\ flowchart.edges = <<>>
  /\ \E k \in 1..Len(undoStack) : heap[undoStack[k]].edges # <<>>

\* C21: deserializeFlowchart fails on a file whose nodes or whose edges are
\* missing or not an array, and a load that fails leaves the current
\* document, undoStack, redoStack and the transaction anchor as they were
\* before the load was attempted.
MalformedFile(file) ==
  \/ file.nodes.kind \in {"missing", "string"}
  \/ file.edges.kind \in {"missing", "string"}

LoadAllOrNothing ==
  (lastOp.op = "handleLoad" /\ MalformedFile(lastOp.arg.result.data[1])) =>
    /\ deserializeThrows(lastOp.arg.result.data[1])
    /\ stateRef = pre.stateRef
    /\ Len(heap) = lastOp.docs
    /\ flowchart = lastOp.arg.flowchart
    /\ undoStack = pre.undoStack
    /\ redoStack = pre.redoStack
    /\ transactionStartRef = pre.transactionStartRef

\* a load of a file whose edges are not an array has failed while there was
\* history to undo and to redo and a transaction was open
LoadAllOrNothingWitness ==
  /\ lastOp.op = "handleLoad"
  /\ lastOp.arg.result.data[1].edges.kind = "string"
  /\ pre.undoStack # <<>>
  /\ pre.transactionStartRef # Null
  /\ undoStack = pre.undoStack

\* C23 (for updates aimed at a node other than the root): a handleNodeUpdate
\* whose update names only text and/or actor and a handleEdgeUpdate whose
\* update does not name color leave undoStack and redoStack unchanged;
\* outside a transaction (the manager holds no anchor) a handleNodeUpdate
\* that names position, size, connectionPoints, backgroundColor or tag and
\* a handleEdgeUpdate that names color add exactly one entry to undoStack,
\* the document that was current before the update.
\* the document that was current when the last handler was called (the
\* handlers other than the loads leave the documents built before alone)
preFlowchart == heap[pre.stateRef]

AimedAtRoot ==
  \E i \in 1..Len(preFlowchart.nodes) :
    /\ preFlowchart.nodes[i].id = lastOp.arg.nodeId
    /\ preFlowchart.nodes[i].tag = "root"

HistoryPolicy ==
  /\ (lastOp.op = "handleNodeUpdate" /\ ~AimedAtRoot) =>
       /\ DOMAIN lastOp.arg.updates \subseteq {"text", "actor"} =>
            /\ undoStack = pre.undoStack
            /\ redoStack = pre.redoStack
       /\ (isUndoableNodeUpdate(lastOp.arg.updates)
             /\ pre.transactionStartRef = Null) =>
            /\ undoStack = Push(pre.undoStack, pre.stateRef)
            /\ stateRef # pre.stateRef
  /\ lastOp.op = "handleEdgeUpdate" =>
       /\ ~isUndoableEdgeUpdate(lastOp.arg.updates) =>
            /\ undoStack = pre.undoStack
            /\ redoStack = pre.redoStack
       /\ (isUndoableEdgeUpdate(lastOp.arg.updates)
             /\ pre.transactionStartRef = Null) =>
            /\ undoStack = Push(pre.undoStack, pre.stateRef)
            /\ stateRef # pre.stateRef

\* C24: a handleNodeUpdate or handleNodeDelete aimed at the root node leaves
\* the root in the current document with its tag, text, actor, childCount
\* and backgroundColor unchanged (only position, size and connectionPoints
\* can change), and a handleNodeDelete aimed at the root changes neither the
\* document nor the stacks.
TargetOfLastOp ==
  IF lastOp.op = "handleNodeUpdate" THEN lastOp.arg.nodeId ELSE lastOp.arg

RootsAimedAt ==
  {i \in 1..Len(preFlowchart.nodes) :
     /\ preFlowchart.nodes[i].id = TargetOfLastOp
     /\ preFlowchart.nodes[i].tag = "root"}

KeepsProtectedFields(old, new) ==
  /\ new.id = old.id
  /\ new.tag = old.tag
  /\ new.text = old.text
  /\ new.actor = old.actor
  /\ new.childCount = old.childCount
  /\ new.backgroundColor = old.backgroundColor

RootProtection ==
  lastOp.op \in {"handleNodeUpdate", "handleNodeDelete"} =>
    /\ \A i \in RootsAimedAt :
         \E j \in 1..Len(flowchart.nodes) :
           KeepsProtectedFields(preFlowchart.nodes[i], flowchart.nodes[j])
    /\ (lastOp.op = "handleNodeDelete" /\ RootsAimedAt # {}) =>
         /\ flowchart = preFlowchart
         /\ stateRef = pre.stateRef
         /\ undoStack = pre.undoStack
         /\ redoStack = pre.redoStack

\* C25: right after a successful handleLoad, handleLoadFile, handleNewProject
\* or handleOpenProject undoStack and redoStack are empty and no transaction
\* is active, and for as long as only undo and redo are called afterwards
\* the document that was loaded stays current: none of the documents that
\* existed before the load comes back.
UndoStopsAtFileBoundary ==
  lastOp.loaded # <<>> =>
    /\ undoStack = <<>>
    /\ redoStack = <<>>
    /\ undoDepth = 0
    /\ redoDepth = 0
    /\ transactionStartRef = Null
    /\ stateRef = lastOp.loaded[1].ref
    /\ state = lastOp.loaded[1].ref

\* an undo has been called after a load that found history to undo
UndoStopsAtFileBoundaryWitness ==
  /\ lastOp.op = "handleUndo"
  /\ lastOp.loaded # <<>>
  /\ lastOp.loaded[1].history > 0

\* C26: in every state the handlers of App reach, the current document and
\* every document on undoStack or redoStack holds exactly one node tagged
\* root.
HeldDocuments == {stateRef} \cup Range(undoStack) \cup Range(redoStack)

DerivedFieldsCurrent ==
  \A i \in NodesTagged(flowchart, "choiceFlag") :
    /\ flowchart.nodes[i].childCount =
         <<EdgesFrom(flowchart, flowchart.nodes[i].id)>>
    /\ flowchart.nodes[i].text = ""

\* C33: In every state reachable by the manager's operations undoStack and
\* redoStack together hold at most maxHistory entries; hence undo() always
\* pushes onto a redoStack with room left, and the eviction branch after that
\* push is never taken: redoStack is the old one with the old current on top.
SharedHistoryBound ==
  /\ Len(undoStack) + Len(redoStack) <= maxHistory
  /\ (lastOp.op = "undo" /\ pre.undoStack # <<>>) =>
       /\ Len(pre.redoStack) < maxHistory
       /\ redoStack = Append(pre.redoStack, pre.stateRef)

\* undo() took the last entry of a full undoStack and filled redoStack with
\* as many entries as the bound allows
SharedHistoryBoundWitness ==
  /\ lastOp.op = "undo"
  /\ pre.undoStack # <<>>
  /\ undoStack = <<>>
  /\ Len(redoStack) = maxHistory

\* the values a caller can get back to: current and the entries of the stacks
Reachable == {stateRef} \cup Range(undoStack) \cup Range(redoStack)

\* C37: The pre-gesture value is never lost by a mid-gesture undo.  Right
\* after undo() or redo() was called while a transaction was active, the
\* value that was current at startTransaction is current or an entry of
\* undoStack or redoStack; in particular, when undoStack was empty at an
\* undo(), current is not an intermediate setState value with the start value
\* on neither stack.
StartValueSurvivesAbandon ==
  (lastOp.op \in {"undo", "redo"} /\ pre.transactionStartRef # Null) =>
    /\ pre.transactionStartRef \in Reachable
    /\ (lastOp.op = "undo" /\ pre.undoStack = <<>>
          /\ stateRef \in gesture.inter \ {pre.transactionStartRef}) =>
         pre.transactionStartRef \in Range(undoStack) \cup Range(redoStack)

\* ------------------------------------- specification of the call sequences
\* The manager under every sequence of calls, observed by a monitor of the
\* sequences undo;redo, redo;undo and undo;setState(x);redo;undo that start
\* with no transaction active.
\*   phase  : the calls of the sequence made so far ("u", "ur", "r", "ru",
\*            "us", "usr", "usru"), "" when none is being followed;
\*   before : the hook's state when the first call of the sequence was made;
\*   x      : the value passed to setState in the sequence.
NoSnapshot ==
  [stateRef |-> Null, undoStack |-> <<>>, redoStack |-> <<>>,
   transactionStartRef |-> Null]

NoTrip == [phase |-> "", before |-> NoSnapshot, x |-> Null]

trip == lastOp.trip

\* An undo() or redo() may continue the sequence being followed or start a
\* new one, so every call is followed as the first call of a sequence too.
TripsAfter(op, arg) ==
  LET fresh(p) == IF transactionStartRef = Null
                  THEN [phase |-> p, before |-> Snapshot, x |-> Null]
                  ELSE NoTrip
      next(from, to) == IF trip.phase = from
                        THEN {[trip EXCEPT !.phase = to]}
                        ELSE {}
  IN  CASE op = "undo" -> {fresh("u")} \cup next("r", "ru") \cup next("usr", "usru")
        [] op = "redo" -> {fresh("r")} \cup next("u", "ur") \cup next("us", "usr")
        [] op = "setState" ->
             IF trip.phase = "u"
             THEN {[trip EXCEPT !.phase = "us", !.x = arg]}
             ELSE {NoTrip}
        [] OTHER -> {NoTrip}

ObserveTrips(op, arg) ==
  /\ \E t \in TripsAfter(op, arg) : lastOp' = [op |-> op, arg |-> arg, trip |-> t]
  /\ UNCHANGED <<gesture, roundTrip, call, appVars>>

InitTrips ==
  /\ stateRef \in Values
  /\ state = stateRef
  /\ undoStack = <<>>
  /\ redoStack = <<>>
  /\ undoDepth = 0
  /\ redoDepth = 0
  /\ transactionStartRef = Null
  /\ lastOp = [op |-> "init", arg |-> Null, trip |-> NoTrip]
  /\ gesture = NoGesture
  /\ roundTrip = NoRoundTrip
  /\ call = NoCall
  /\ heap = <<>>
  /\ connectingFrom = NoConnection
  /\ nodeIdCounter = 0
  /\ isTransactionActiveRef = FALSE

TripSetState ==
  \E v \in Values : setState(v) /\ ObserveTrips("setState", v)

TripSetStateWithHistory ==
  \E v \in Values : setStateWithHistory(v) /\ ObserveTrips("setStateWithHistory", v)

TripStartTransaction == startTransaction /\ ObserveTrips("startTransaction", Null)

TripCommitTransaction == commitTransaction /\ ObserveTrips("commitTransaction", Null)

TripCancelTransaction == cancelTransaction /\ ObserveTrips("cancelTransaction", Null)

TripUndo == undo /\ ObserveTrips("undo", Null)

TripRedo == redo /\ ObserveTrips("redo", Null)

TripResetHistory == resetHistory /\ ObserveTrips("resetHistory", Null)

NextTrips ==
  \/ TripSetState
  \/ TripSetStateWithHistory
  \/ TripStartTransaction
  \/ TripCommitTransaction
  \/ TripCancelTransaction
  \/ TripUndo
  \/ TripRedo
  \/ TripResetHistory

SpecTrips == InitTrips /\ [][NextTrips]_vars

\* current and both stacks are what they were when the sequence started
Restored ==
  /\ stateRef = trip.before.stateRef
  /\ undoStack = trip.before.undoStack
  /\ redoStack = trip.before.redoStack

\* C34: undo() and redo() are mutually inverse.  From a state with no active
\* transaction and a non-empty undoStack, undo() followed by redo() restores
\* current, undoStack and redoStack exactly; from one with no active
\* transaction and a non-empty redoStack, redo() followed by undo() does the
\* same; no entry is lost to eviction.
UndoRedoInverse ==
  /\ (trip.phase = "ur" /\ trip.before.undoStack # <<>>) => Restored
  /\ (trip.phase = "ru" /\ trip.before.redoStack # <<>>) => Restored

\* redo() filled undoStack up to the bound and the undo() after it restored
\* both stacks, redoStack holding an entry other than current
UndoRedoInverseWitness ==
  /\ trip.phase = "ru"
  /\ lastOp.op = "undo"
  /\ trip.before.redoStack # <<>>
  /\ Len(trip.before.undoStack) = maxHistory - 1
  /\ Last(trip.before.redoStack) # trip.before.stateRef
  /\ Restored

\* what undo(); setState(x); redo() and a further undo() leave
ImmediateThenRedo ==
  /\ trip.phase = "usr" =>
       /\ stateRef = trip.before.stateRef
       /\ undoStack # <<>>
       /\ Last(undoStack) = trip.x
  /\ trip.phase = "usru" => stateRef = trip.x

\* C39 as stated: Immediate edits and redo.  From a state with no active
\* transaction, after undo(); setState(x); redo() current is the value that
\* was current before the undo and x is the newest undoStack entry; a further
\* undo() makes x current.
ImmediateKeepsRedoAsClaimed == ImmediateThenRedo

\* C39: Immediate edits and redo, amended.  As above from a state with no
\* active transaction whose undoStack holds an entry, so that the undo()
\* steps back; setState(x) leaves on redoStack the entry that undo() pushed.
ImmediateKeepsRedo ==
  trip.before.undoStack # <<>> =>
    /\ ImmediateThenRedo
    /\ trip.phase = "us" =>
         redoStack = Append(trip.before.redoStack, trip.before.stateRef)

\* the four calls were made from a state whose undoStack held an entry, with
\* x neither the value current before the undo nor the entry undone to
ImmediateKeepsRedoWitness ==
  /\ trip.phase = "usru"
  /\ lastOp.op = "undo"
  /\ trip.before.undoStack # <<>>
  /\ trip.x \notin {trip.before.stateRef, Last(trip.before.undoStack)}
  /\ stateRef = trip.x
  /\ Last(redoStack) = trip.before.stateRef

\* ---------------------------------------------- specification of the files
\* One call of a function that produces nodes or documents: createFlowchart,
\* createNode, deserializeFlowchart on the text of a file, and
\* deserializeFlowchart on what serializeFlowchart wrote.  The text of a file
\* is modelled by the value JSON.parse gives for it.
ViewStates == {[x |-> 10, y |-> 20, scale |-> 2]}
Metadatas == {EmptyObject, [author |-> "a"]}

\* JSON.stringify of a node: a property holding undefined is left out
nodeToJson(node) ==
  [id |-> <<node.id>>, tag |-> <<node.tag>>, text |-> <<node.text>>,
   position |-> <<node.position>>, size |-> <<node.size>>,
   actor |-> node.actor, childCount |-> node.childCount,
   backgroundColor |-> <<node.backgroundColor>>,
   connectionPoints |-> <<node.connectionPoints>>]

\* JSON.stringify(flowchart, null, 2)
serializeFlowchart(doc) ==
  [json |-> TRUE,
   nodes |-> Array([i \in 1..Len(doc.nodes) |-> nodeToJson(doc.nodes[i])]),
   edges |-> Array(doc.edges),
   metadata |-> Property(doc, "metadata"),
   viewState |-> Property(doc, "viewState")]

\* { ...flowchart, viewState: canvasViewStateRef.current || undefined }
flowchartWithViewState(doc, canvasViewState) ==
  Spread(doc, [viewState |-> canvasViewState])

\* the documents saved: normalized documents of the editor, which all carry
\* metadata (createFlowchart and deserializeFlowchart set it)
SavedDocs ==
  {Spread(applyDerivedFlowchart(d), [metadata |-> <<m>>]) :
     d \in EditDocs, m \in Metadatas}

\* the nodes of the files loaded: with an id or without, with a tag or
\* without, and without connectionPoints, with an empty array, with an input
\* point only, or with an input and an output point
LoadedNodes ==
  LET size == [width |-> 150, height |-> 80]
      points == DefaultConnectionPoints("node-1", size)
  IN  {[JsonNode(id, tag, <<"hi">>) EXCEPT !.connectionPoints = cps] :
         id \in {Undefined, <<"node-1">>},
         tag \in {Undefined, <<"root">>, <<"option">>},
         cps \in {Undefined, << <<>> >>, << <<points[1]>> >>, <<points>>}}

LoadedFiles ==
  {[json |-> TRUE, nodes |-> Array(ns), edges |-> Array(<<>>)] :
     ns \in UNION {[1..n -> LoadedNodes] : n \in 1..MaxNodes}}

FileCreateFlowchart ==
  /\ call = NoCall
  /\ call' = [fn |-> "createFlowchart", nodes |-> createFlowchart.nodes]
  /\ UNCHANGED <<hookVars, lastOp, gesture, roundTrip, appVars>>

FileCreateNode ==
  /\ call = NoCall
  /\ \E id \in EditNodeIds, position \in MovePositions,
        size \in {[width |-> 150, height |-> 80], [width |-> 200, height |-> 100]} :
       call' = [fn |-> "createNode",
                nodes |-> <<createNode(id, position, size)>>]
  /\ UNCHANGED <<hookVars, lastOp, gesture, roundTrip, appVars>>

FileDeserialize ==
  /\ call = NoCall
  /\ \E file \in LoadedFiles :
       /\ ~deserializeThrows(file)
       /\ call' = [fn |-> "deserializeFlowchart", file |-> file,
                   nodes |-> deserializeFlowchart(file).nodes]
  /\ UNCHANGED <<hookVars, lastOp, gesture, roundTrip, appVars>>

\* handleSave writes the document with the canvas' view state, handleLoad
\* reads the text back
FileSaveAndLoad ==
  /\ call = NoCall
  /\ \E d \in SavedDocs, view \in {Undefined} \cup {<<v>> : v \in ViewStates} :
       LET saved == flowchartWithViewState(d, view)
           text == serializeFlowchart(saved)
       IN  /\ ~deserializeThrows(text)
           /\ call' = [fn |-> "saveAndLoad", saved |-> saved,
                       loaded |-> deserializeFlowchart(text)]
  /\ UNCHANGED <<hookVars, lastOp, gesture, roundTrip, appVars>>

NextFile ==
  \/ FileCreateFlowchart
  \/ FileCreateNode
  \/ FileDeserialize
  \/ FileSaveAndLoad

SpecFile == InitDoc /\ [][NextFile]_vars

HasPoint(node, type) ==
  \E i \in 1..Len(node.connectionPoints) : node.connectionPoints[i].type = type

\* C31: Connection points.  Every node of a document produced by
\* createFlowchart, createNode or deserializeFlowchart has at least one input
\* and at least one output connection point, including nodes loaded without
\* connectionPoints, with an empty array, with one point only, or without id.
ConnectionPointsPresent ==
  call.fn \in {"createFlowchart", "createNode", "deserializeFlowchart"} =>
    \A i \in 1..Len(call.nodes) :
      HasPoint(call.nodes[i], "input") /\ HasPoint(call.nodes[i], "output")

\* C32: Persistence round trip.  For every normalized document d,
\* deserializeFlowchart(serializeFlowchart(d)) has the nodes, edges, metadata
\* and viewState of d; a document saved with a viewState is loaded with it.
PersistenceRoundTrip ==
  call.fn = "saveAndLoad" =>
    /\ call.loaded.nodes = call.saved.nodes
    /\ call.loaded.edges = call.saved.edges
    /\ Property(call.loaded, "metadata") = Property(call.saved, "metadata")
    /\ Property(call.loaded, "viewState") = Property(call.saved, "viewState")

\* C35: The App's own gesture flag agrees with the manager.  In every state
\* reachable through the App handlers isTransactionActiveRef is true exactly
\* when the manager's transaction anchor is set, so handleNodeUpdate (which
\* reads the flag) and handleEdgeUpdate (which reads the manager) agree on
\* whether a transaction is active.
GestureFlagAgrees == isTransactionActiveRef <=> isTransactionActive

\* the gesture being followed: handleTransactionStart set the flag and
\* handleTransactionEnd has not returned, or has just returned
started == lastOp.started

\* C36: One undo entry per gesture at the App level.  Between
\* handleTransactionStart and the matching handleTransactionEnd, whatever
\* other handlers run in between (handleNodeMove, handleNodeUpdate,
\* handleAddNode, handleNodeDelete, handleEdgeDelete, handleConnectionEnd,
\* handleUndo), undoStack does not grow before the end; after the end it holds
\* at most one entry more than at the start, and the document of the start is
\* current or an entry of undoStack, so that undo can revert the changes of
\* the gesture.
OneEntryPerAppGesture ==
  started # <<>> =>
    /\ isTransactionActiveRef => Len(undoStack) <= started[1].depth
    /\ lastOp.op = "handleTransactionEnd" =>
         /\ Len(undoStack) <= started[1].depth + 1
         /\ started[1].ref \in {stateRef} \cup Range(undoStack)

\* the handlers that may push an entry onto undoStack
PushingHandlers ==
  {"handleAddNode", "handleConnectionEnd", "handleNodeDelete",
   "handleNodeUpdate", "handleEdgeDelete", "handleEdgeUpdate",
   "handleTransactionEnd"}

\* C38: No empty history steps.  Every entry pushed onto undoStack through
\* the App handlers differs in content, not only in reference, from the
\* document that replaced it, so every undo() that changes the stacks also
\* changes the visible document.
NoEmptyHistoryStep ==
  /\ (lastOp.op \in PushingHandlers /\ undoStack # pre.undoStack) =>
       heap[Last(undoStack)] # flowchart
  /\ (lastOp.op = "handleUndo" /\ pre.undoStack # <<>>) =>
       flowchart # heap[pre.stateRef]

====
